---- MODULE Spec2Model ----
(***************************************************************************)
(* A model of the cdtoc crate's table of contents: the Toc value, its      *)
(* validating constructors (from_parts, from_cdtoc), its two mutators      *)
(* (set_audio_leadin, set_kind) and its canonical text form (Display).     *)
(* Sector values are unsigned words with checked, wrapping or panicking    *)
(* arithmetic as in the source.  TLC's integers are 32-bit signed, so the  *)
(* word is 28 bits wide here (U32Max) instead of 32: sums of two words     *)
(* still fit TLC's integers and overflow happens at the word's top.        *)
(* The identifiers derived from a Toc, its tracks and durations, the input *)
(* of its CTDB ID and the drive offset parser follow, each with its caller.*)
(***************************************************************************)
EXTENDS Integers, Sequences, FiniteSets, TLC

VARIABLES
    toc,     \* the live Toc (NoToc before construction or after a failed one)
    ret,     \* what the last call returned
    call,    \* the last call and its argument
    pre,     \* the Toc as it was before the last call
    call2,   \* the call before the last one
    ret2,    \* what call2 returned
    pre2,    \* the Toc as it was before call2
    text,    \* a CDTOC text waiting to be handed to from_cdtoc (None: none)
    input,   \* the from_parts arguments the caller constructs with
    calls,   \* how many calls the caller has made on the Toc since construction
    id,      \* the identifier held (AccurateRip, Cddb or ShaB64; NoId: none)
    preid,   \* the identifier as it was before the last call
    bin,     \* the last checksum file handed to AccurateRip::parse_checksums
    sums,    \* the checksums the last parser returned, one map per track
    args,    \* the arguments of the last from_durations or audio_track call
    got      \* what the last track, duration, CTDB ID or drive offset call produced

ids == <<id, preid, bin, sums, args, got>>

vars == <<toc, ret, call, pre, call2, ret2, pre2, text, input, calls, id, preid, bin, sums,
          args, got>>

(***************************************************************************)
(* Program constants.                                                      *)
(***************************************************************************)
U8Mod == 256
MaxTracks == 99
MinLeadin == 150

(***************************************************************************)
(* Bounds of the model.                                                    *)
(***************************************************************************)
U32Max == 268435455   \* the largest sector word of the model (u32::MAX scaled)
MaxLen == 3       \* longest audio list enumerated value by value
MaxGroups == 4    \* most '+'-separated groups after the track count
MaxCalls == 4     \* most calls made on one Toc after its construction
MaxRecords == 2   \* most records in a checksum file
MaxBlocks == 2    \* most blocks in a drive offset list

U32Mod == U32Max + 1

(***************************************************************************)
(* Values.                                                                 *)
(***************************************************************************)
None == <<>>
Some(v) == <<v>>

Kinds == {"Audio", "CDExtra", "DataFirst"}

NoToc == [kind |-> "None", audio |-> <<>>, data |-> 0, leadout |-> 0]

Ok == [tag |-> "Ok", n |-> 0, found |-> 0]
Err(t) == [tag |-> t, n |-> 0, found |-> 0]
ErrSectorCount(n, found) == [tag |-> "SectorCount", n |-> n, found |-> found]

Call(op, kind, leadin, txt) ==
    [op |-> op, kind |-> kind, leadin |-> leadin, text |-> txt]
NoCall == Call("new", "None", 0, <<>>)

\* An identifier: its type and its bytes (13 for AccurateRip, 4 big-endian
\* bytes of the u32 for Cddb, 20 for ShaB64).
Id(type, bytes) == [type |-> type, bytes |-> bytes]
NoId == Id("None", <<>>)

\* The arguments of from_durations (src, leadin) and of audio_track (num).
NoArgs == [src |-> <<>>, leadin |-> None, num |-> 0]

\* The results of the track queries: a Track (Option), the Tracks an iterator
\* yielded, a Duration (sectors), the characters fed to SHA-1 and the drive
\* offsets parsed, each with its default until the operation has run.
NoGot == [track |-> None, tracks |-> <<>>, duration |-> 0, sum |-> 0, fed |-> <<>>,
          offsets |-> {}]

Min(S) == CHOOSE x \in S : \A y \in S : x <= y

(***************************************************************************)
(* TocKind::has_data and the Toc accessors the mutators use.               *)
(***************************************************************************)
has_data(kind) == kind \in {"CDExtra", "DataFirst"}

audio_leadin(t) == IF Len(t.audio) >= 1 THEN t.audio[1] ELSE 150

data_sector(t) == IF has_data(t.kind) THEN Some(t.data) ELSE None

(***************************************************************************)
(* Toc::from_parts: the result is [ret, toc]; toc is NoToc on an error.    *)
(***************************************************************************)
Fail(e) == [ret |-> e, toc |-> NoToc]

\* from_parts with `<` for `<=` in the order checks (equal sectors accepted)
from_parts_strict_order(audio, data, leadout) ==
    LET audio_len == Len(audio) IN
    IF 0 = audio_len THEN Fail(Err("NoAudio"))
    ELSE IF MaxTracks < audio_len THEN Fail(Err("TrackCount"))
    ELSE IF audio[1] < MinLeadin THEN Fail(Err("LeadinSize"))
    ELSE IF (1 < audio_len /\ \E i \in 1..(audio_len - 1) : audio[i + 1] < audio[i])
            \/ leadout < audio[audio_len]
    THEN Fail(Err("SectorOrder"))
    ELSE IF data # None
    THEN LET d == data[1] IN
         IF d < audio[1]
         THEN [ret |-> Ok, toc |-> [kind |-> "DataFirst", audio |-> audio,
                                    data |-> d, leadout |-> leadout]]
         ELSE IF audio[audio_len] < d /\ d < leadout
         THEN [ret |-> Ok, toc |-> [kind |-> "CDExtra", audio |-> audio,
                                    data |-> d, leadout |-> leadout]]
         ELSE Fail(Err("SectorOrder"))
    ELSE [ret |-> Ok, toc |-> [kind |-> "Audio", audio |-> audio,
                               data |-> 0, leadout |-> leadout]]

from_parts(audio, data, leadout) ==
    LET audio_len == Len(audio) IN
    IF 0 = audio_len THEN Fail(Err("NoAudio"))
    ELSE IF MaxTracks < audio_len THEN Fail(Err("TrackCount"))
    ELSE IF audio[1] < MinLeadin THEN Fail(Err("LeadinSize"))
    ELSE IF (1 < audio_len /\ \E i \in 1..(audio_len - 1) : audio[i + 1] <= audio[i])
            \/ leadout <= audio[audio_len]
    THEN Fail(Err("SectorOrder"))
    ELSE IF data # None
    THEN LET d == data[1] IN
         IF d < audio[1]
         THEN [ret |-> Ok, toc |-> [kind |-> "DataFirst", audio |-> audio,
                                    data |-> d, leadout |-> leadout]]
         ELSE IF audio[audio_len] < d /\ d < leadout
         THEN [ret |-> Ok, toc |-> [kind |-> "CDExtra", audio |-> audio,
                                    data |-> d, leadout |-> leadout]]
         ELSE Fail(Err("SectorOrder"))
    ELSE [ret |-> Ok, toc |-> [kind |-> "Audio", audio |-> audio,
                               data |-> 0, leadout |-> leadout]]

(***************************************************************************)
(* Toc::set_audio_leadin.  The sectors are rewritten in place one after    *)
(* the other: the audio list front to back, then data, then leadout.  The  *)
(* upward nudge uses checked_add and returns SectorSize at the first sum   *)
(* above u32::MAX, keeping what it has already written.  The downward      *)
(* nudge uses plain `-=`: below zero it panics when the build has overflow *)
(* checks (keeping what it has already written) and wraps otherwise.       *)
(***************************************************************************)
nudge_down(t, diff, checks) ==
    LET bad  == {i \in DOMAIN t.audio : t.audio[i] < diff}
        k    == IF bad = {} THEN Len(t.audio) + 1 ELSE Min(bad)
        sub(v) == (v - diff) % U32Mod
    IN  IF checks /\ bad # {}
        THEN [ret |-> Err("Panic"),
              toc |-> [t EXCEPT !.audio =
                         [i \in DOMAIN t.audio |->
                            IF i < k THEN t.audio[i] - diff ELSE t.audio[i]]]]
        ELSE LET a1 == [i \in DOMAIN t.audio |-> sub(t.audio[i])] IN
             IF has_data(t.kind) /\ checks /\ t.data < diff
             THEN [ret |-> Err("Panic"), toc |-> [t EXCEPT !.audio = a1]]
             ELSE LET d1 == IF has_data(t.kind) THEN sub(t.data) ELSE t.data IN
                  IF checks /\ t.leadout < diff
                  THEN [ret |-> Err("Panic"),
                        toc |-> [t EXCEPT !.audio = a1, !.data = d1]]
                  ELSE [ret |-> Ok,
                        toc |-> [t EXCEPT !.audio = a1, !.data = d1,
                                          !.leadout = sub(t.leadout)]]

nudge_up(t, diff) ==
    LET bad == {i \in DOMAIN t.audio : t.audio[i] + diff > U32Max}
        k   == IF bad = {} THEN Len(t.audio) + 1 ELSE Min(bad)
        a1  == [i \in DOMAIN t.audio |->
                  IF i < k THEN t.audio[i] + diff ELSE t.audio[i]]
    IN  IF bad # {}
        THEN [ret |-> Err("SectorSize"), toc |-> [t EXCEPT !.audio = a1]]
        ELSE IF has_data(t.kind) /\ t.data + diff > U32Max
        THEN [ret |-> Err("SectorSize"), toc |-> [t EXCEPT !.audio = a1]]
        ELSE LET d1 == IF has_data(t.kind) THEN t.data + diff ELSE t.data IN
             IF t.leadout + diff > U32Max
             THEN [ret |-> Err("SectorSize"),
                   toc |-> [t EXCEPT !.audio = a1, !.data = d1]]
             ELSE [ret |-> Ok,
                   toc |-> [t EXCEPT !.audio = a1, !.data = d1,
                                     !.leadout = t.leadout + diff]]

set_audio_leadin(t, leadin, checks) ==
    IF leadin < MinLeadin THEN [ret |-> Err("LeadinSize"), toc |-> t]
    ELSE IF t.kind = "DataFirst" THEN [ret |-> Err("Format"), toc |-> t]
    ELSE LET current == audio_leadin(t) IN
         IF leadin < current THEN nudge_down(t, current - leadin, checks)
         ELSE IF leadin > current THEN nudge_up(t, leadin - current)
         ELSE [ret |-> Ok, toc |-> t]

(***************************************************************************)
(* Toc::set_kind.                                                          *)
(***************************************************************************)
Front(s) == SubSeq(s, 1, Len(s) - 1)

\* Vec::remove(len - 1) and Vec::remove(0): what is left of the list
\* removing from the wrong end of the list
remove_last_wrong_end(audio) == Tail(audio)

remove_last(audio) == Front(audio)

\* a remove(0) that leaves its element in the list
remove_first_keeps_it(audio) == audio

\* a remove(0) that takes the last element out instead
remove_first_takes_last(audio) == Front(audio)

remove_first(audio) == Tail(audio)

set_kind(t, kind) ==
    IF t.kind = "Audio" /\ kind = "CDExtra"
    THEN LET len == Len(t.audio) IN
         IF len = 1 THEN [ret |-> Err("NoAudio"), toc |-> t]
         ELSE [ret |-> Ok,
               toc |-> [t EXCEPT !.data = t.audio[len], !.audio = remove_last(t.audio),
                                 !.kind = kind]]
    ELSE IF t.kind = "Audio" /\ kind = "DataFirst"
    THEN IF Len(t.audio) = 1 THEN [ret |-> Err("NoAudio"), toc |-> t]
         ELSE [ret |-> Ok,
               toc |-> [t EXCEPT !.data = t.audio[1], !.audio = remove_first(t.audio),
                                 !.kind = kind]]
    ELSE IF t.kind = "CDExtra" /\ kind = "Audio"
    THEN [ret |-> Ok,
          toc |-> [t EXCEPT !.audio = Append(t.audio, t.data), !.data = 0,
                            !.kind = kind]]
    ELSE IF t.kind = "DataFirst" /\ kind = "Audio"
    THEN [ret |-> Ok,
          toc |-> [t EXCEPT !.audio = <<t.data>> \o t.audio, !.data = 0,
                            !.kind = kind]]
    ELSE IF t.kind = "CDExtra" /\ kind = "DataFirst"
    THEN LET pushed == Append(t.audio, t.data) IN
         [ret |-> Ok,
          toc |-> [t EXCEPT !.audio = remove_first(pushed), !.data = pushed[1],
                            !.kind = kind]]
    ELSE IF t.kind = "DataFirst" /\ kind = "CDExtra"
    THEN LET inserted == <<t.data>> \o t.audio IN
         [ret |-> Ok,
          toc |-> [t EXCEPT !.audio = remove_last(inserted),
                            !.data = inserted[Len(inserted)], !.kind = kind]]
    ELSE [ret |-> Ok, toc |-> t]

(***************************************************************************)
(* Hex primitives.  Text is a sequence of one-character strings.           *)
(***************************************************************************)
HexLower == <<"0", "1", "2", "3", "4", "5", "6", "7",
              "8", "9", "a", "b", "c", "d", "e", "f">>
HexUpper == <<"0", "1", "2", "3", "4", "5", "6", "7",
              "8", "9", "A", "B", "C", "D", "E", "F">>

IsHex(c) == \E i \in 1..16 : c = HexLower[i] \/ c = HexUpper[i]
HexVal(c) == (CHOOSE i \in 1..16 : c = HexLower[i] \/ c = HexUpper[i]) - 1

Pow16(e) == IF e = 0 THEN 1 ELSE IF e = 1 THEN 16 ELSE IF e = 2 THEN 256
            ELSE IF e = 3 THEN 4096 ELSE IF e = 4 THEN 65536
            ELSE IF e = 5 THEN 1048576 ELSE IF e = 6 THEN 16777216
            ELSE 268435456

\* faster_hex::hex_encode_fallback: `width` lowercase digits, most significant first.
hex_encode(v, width) ==
    [i \in 1..width |-> HexLower[((v \div Pow16(width - i)) % 16) + 1]]

\* <[u8]>::trim_start_matches(b'0')
trim_start_zeroes(s) ==
    LET nz == {i \in DOMAIN s : s[i] # "0"} IN
    IF nz = {} THEN <<>> ELSE SubSeq(s, Min(nz), Len(s))

\* u8::to_ascii_uppercase
to_ascii_uppercase(c) ==
    IF \E i \in 11..16 : c = HexLower[i]
    THEN HexUpper[CHOOSE i \in 11..16 : c = HexLower[i]]
    ELSE IF c = "x" THEN "X" ELSE c

\* a Display that forgets `out.make_ascii_uppercase()`
keep_case(s) == s

make_ascii_uppercase(s) == [i \in DOMAIN s |-> to_ascii_uppercase(s[i])]

\* dactyl's HexToUnsigned::htou: 1..max_digits hex characters, most
\* significant first, no prefix, either case; anything else is None.
RECURSIVE hex_value(_)
hex_value(s) ==
    IF s = <<>> THEN 0 ELSE hex_value(Front(s)) * 16 + HexVal(s[Len(s)])

htou(s, max_digits) ==
    IF Len(s) = 0 \/ Len(s) > max_digits \/ \E i \in DOMAIN s : ~IsHex(s[i])
    THEN None
    ELSE IF Len(trim_start_zeroes(s)) > 7 \/ hex_value(s) > U32Max
    THEN None   \* does not fit the word
    ELSE Some(hex_value(s))

(***************************************************************************)
(* impl fmt::Display for Toc.                                              *)
(***************************************************************************)
push(v) == <<"+">> \o trim_start_zeroes(hex_encode(v, 8))

\* `for v in &self.audio { push!(v); }`, concatenated by halves
RECURSIVE push_range(_, _, _)
push_range(audio, lo, hi) ==
    IF lo > hi THEN <<>>
    ELSE IF lo = hi THEN push(audio[lo])
    ELSE LET mid == (lo + hi) \div 2 IN
         push_range(audio, lo, mid) \o push_range(audio, mid + 1, hi)

push_all(audio) == push_range(audio, 1, Len(audio))

to_string(t) ==
    LET audio_len == Len(t.audio) % U8Mod
        buf       == hex_encode(audio_len, 2)
        count     == (IF 16 <= audio_len THEN <<buf[1]>> ELSE <<>>) \o <<buf[2]>>
        tail      == IF t.kind = "Audio" THEN push(t.leadout)
                     ELSE IF t.kind = "CDExtra" THEN push(t.data) \o push(t.leadout)
                     ELSE push(t.leadout) \o <<"+", "X">>
                          \o trim_start_zeroes(hex_encode(t.data, 8))
    IN  make_ascii_uppercase(count \o push_all(t.audio) \o tail)

(***************************************************************************)
(* parse_cdtoc_metadata and Toc::from_cdtoc.                               *)
(***************************************************************************)
is_ascii_whitespace(c) == c \in {" ", "\t", "\n", "\f", "\r"}

trim_ascii(s) ==
    LET keep == {i \in DOMAIN s : ~is_ascii_whitespace(s[i])} IN
    IF keep = {} THEN <<>>
    ELSE SubSeq(s, Min(keep), CHOOSE i \in keep : \A j \in keep : j <= i)

\* <[u8]>::split(|b| b == b'+'): always at least one (possibly empty) group.
\* The groups of s[lo..hi], found by cutting at a '+' nearest the middle.
RECURSIVE split_range(_, _, _)
split_range(s, lo, hi) ==
    LET plus == {i \in lo..hi : s[i] = "+"}
        mid  == (lo + hi) \div 2
        left == {i \in plus : i <= mid}
        p    == IF left # {} THEN CHOOSE i \in left : \A j \in left : j <= i
                ELSE CHOOSE i \in plus : \A j \in plus : i <= j
    IN  IF plus = {} THEN <<SubSeq(s, lo, hi)>>
        ELSE split_range(s, lo, p - 1) \o split_range(s, p + 1, hi)

split(s) == split_range(s, 1, Len(s))

ParseFail(e) == [ret |-> e, audio |-> <<>>, data |-> None, leadout |-> 0]

strip_x(g) ==
    IF Len(g) >= 1 /\ g[1] \in {"X", "x"} THEN Some(Tail(g)) ELSE None

parse_last2(g) ==
    IF htou(g, 8) # None THEN htou(g, 8)
    ELSE IF strip_x(g) # None THEN htou(strip_x(g)[1], 8)
    ELSE None

\* `split.next().ok_or(TocError::SectorCount(audio_len, sectors_len - 1))`
\* reporting the declared count as the found one
no_leadout_same_count(audio_len, sectors_len) == ErrSectorCount(audio_len, sectors_len)

no_leadout(audio_len, sectors_len) == ErrSectorCount(audio_len, sectors_len - 1)

parse_cdtoc_metadata(src) ==
    LET groups == split(trim_ascii(src))
        count  == htou(groups[1], 2)
    IN  IF count = None THEN ParseFail(Err("TrackCount"))
        ELSE
        LET audio_len == count[1]
            rest      == Tail(groups)
            taken     == SubSeq(rest, 1, IF audio_len < Len(rest) THEN audio_len ELSE Len(rest))
            after     == SubSeq(rest, Len(taken) + 1, Len(rest))
            sectors_len == Len(taken)
        IN  IF \E i \in DOMAIN taken : htou(taken[i], 8) = None
            THEN ParseFail(Err("SectorSize"))
            ELSE
            LET sectors == [i \in DOMAIN taken |-> htou(taken[i], 8)[1]] IN
            IF 0 = sectors_len THEN ParseFail(Err("NoAudio"))
            ELSE IF sectors_len # audio_len
            THEN ParseFail(ErrSectorCount(audio_len, sectors_len))
            ELSE IF after = <<>>
            THEN ParseFail(no_leadout(audio_len, sectors_len))
            ELSE IF htou(after[1], 8) = None THEN ParseFail(Err("SectorSize"))
            ELSE
            LET last1 == htou(after[1], 8)[1] IN
            IF Len(after) >= 2
            THEN IF parse_last2(after[2]) = None THEN ParseFail(Err("SectorSize"))
                 ELSE
                 LET last2     == parse_last2(after[2])[1]
                     remaining == Len(after) - 2
                 IN  IF remaining = 0
                     THEN IF last1 < last2
                          THEN [ret |-> Ok, audio |-> sectors,
                                data |-> Some(last1), leadout |-> last2]
                          ELSE [ret |-> Ok, audio |-> sectors,
                                data |-> Some(last2), leadout |-> last1]
                     ELSE ParseFail(ErrSectorCount(audio_len, sectors_len + remaining))
            ELSE [ret |-> Ok, audio |-> sectors, data |-> None, leadout |-> last1]

from_cdtoc(src) ==
    LET p == parse_cdtoc_metadata(src) IN
    IF p.ret # Ok THEN Fail(p.ret)
    ELSE from_parts(p.audio, p.data, p.leadout)

(***************************************************************************)
(* Inputs.                                                                 *)
(***************************************************************************)
SectorVals == {0, 100, 150, 200, 300, U32Max}
LeadinVals == {100, 150, 200, U32Max}

RECURSIVE SeqsUpTo(_, _)
SeqsUpTo(S, n) ==
    IF n = 0 THEN {<<>>}
    ELSE LET shorter == SeqsUpTo(S, n - 1) IN
         shorter \cup {Append(s, x) : s \in {q \in shorter : Len(q) = n - 1}, x \in S}

\* A full disc: n consecutive sectors from the minimum leadin on.
LongAudio(n) == [i \in 1..n |-> MinLeadin + i - 1]

AudioInputs ==
    SeqsUpTo(SectorVals, MaxLen)
    \cup {LongAudio(n) : n \in {MaxTracks - 1, MaxTracks, MaxTracks + 1}}

PartsInputs ==
    [audio : AudioInputs,
     data : {None} \cup {Some(d) : d \in SectorVals},
     leadout : SectorVals]

NoInput == [audio |-> <<>>, data |-> None, leadout |-> 0]

(***************************************************************************)
(* Texts handed to from_cdtoc: a track count and up to MaxGroups groups,   *)
(* joined with '+', with or without surrounding blanks.  The groups mix    *)
(* case, leading zeroes and the x/X marker.                                *)
(***************************************************************************)
CountGroups == {<<"0">>, <<"1">>, <<"0", "2">>}
SectorGroups ==
    {<<"0", "9", "6">>, <<"c", "8">>, <<"A", "F">>, <<"1", "2", "C">>,
     <<"X", "6", "4">>, <<"x", "A", "F">>, <<"x", "0">>}
Pads == {<<>>, <<" ">>}

RECURSIVE join(_)
join(groups) ==
    IF groups = <<>> THEN <<>> ELSE <<"+">> \o Head(groups) \o join(Tail(groups))

TextInputs ==
    {pad \o count \o join(groups) \o pad :
        pad \in Pads, count \in CountGroups,
        groups \in SeqsUpTo(SectorGroups, MaxGroups)}

(***************************************************************************)
(* The caller: one Toc is constructed, then mutated, displayed and         *)
(* re-parsed in any order.  A displayed text is parsed back before the     *)
(* next call on the Toc.  A panic ends the run.                            *)
(***************************************************************************)
Live == toc.kind \in Kinds /\ ret.tag # "Panic" /\ calls < MaxCalls

Fresh ==
    /\ toc = NoToc /\ ret = Ok /\ call = NoCall
    /\ pre = NoToc /\ call2 = NoCall /\ ret2 = Ok /\ pre2 = NoToc
    /\ calls = 0
    /\ id = NoId /\ preid = NoId /\ bin = <<>> /\ sums = <<>>
    /\ args = NoArgs /\ got = NoGot

Init == Fresh /\ input \in PartsInputs /\ text = None

InitText == Fresh /\ input = NoInput /\ text \in {Some(t) : t \in TextInputs}

Record(c) ==
    /\ call' = c /\ call2' = call /\ ret2' = ret /\ pre' = toc /\ pre2' = pre

FromParts ==
    /\ call.op = "new" /\ text = None
    /\ LET r == from_parts(input.audio, input.data, input.leadout) IN
       toc' = r.toc /\ ret' = r.ret
    /\ Record(Call("from_parts", "None", 0, <<>>))
    /\ UNCHANGED <<text, input, calls, ids>>

SetAudioLeadin ==
    /\ Live /\ text = None
    /\ \E leadin \in LeadinVals, checks \in BOOLEAN :
         LET r == set_audio_leadin(toc, leadin, checks) IN
         /\ toc' = r.toc /\ ret' = r.ret
         /\ Record(Call("set_audio_leadin", "None", leadin, <<>>))
    /\ calls' = calls + 1
    /\ UNCHANGED <<text, input, ids>>

SetKind ==
    /\ Live /\ text = None
    /\ \E kind \in Kinds :
         LET r == set_kind(toc, kind) IN
         /\ toc' = r.toc /\ ret' = r.ret
         /\ Record(Call("set_kind", kind, 0, <<>>))
    /\ calls' = calls + 1
    /\ UNCHANGED <<text, input, ids>>

Display ==
    /\ Live /\ text = None
    /\ text' = Some(to_string(toc))
    /\ ret' = Ok
    /\ Record(Call("to_string", "None", 0, <<>>))
    /\ calls' = calls + 1
    /\ UNCHANGED <<toc, input, ids>>

FromCdtoc ==
    /\ call.op \in {"new", "to_string"} /\ text # None
    /\ LET r == from_cdtoc(text[1]) IN
       toc' = r.toc /\ ret' = r.ret
    /\ Record(Call("from_cdtoc", "None", 0, text[1]))
    /\ text' = None
    /\ UNCHANGED <<input, calls, ids>>

Next == FromParts \/ SetAudioLeadin \/ SetKind \/ Display \/ FromCdtoc

Spec == Init /\ [][Next]_vars

NextText == FromCdtoc \/ Display

SpecText == InitText /\ [][NextText]_vars

(***************************************************************************)
(* Identifiers derived from a Toc.  A u32 that needs all of its 32 bits    *)
(* (a Cddb value, a checksum) is kept as its four bytes; sums of sector    *)
(* words are words, each with a flag telling whether the plain `+` or `*`  *)
(* of the source overflowed on the way.                                    *)
(***************************************************************************)
to_le_bytes(v) ==
    <<v % 256, (v \div 256) % 256, (v \div 65536) % 256, (v \div 16777216) % 256>>

Reverse(s) == [i \in DOMAIN s |-> s[Len(s) + 1 - i]]

max(a, b) == IF a < b THEN b ELSE a

saturating_sub(a, b) == IF a < b THEN 0 ELSE a - b

Word(v, o) == [v |-> v, o |-> o]

\* u32 `+`: the wrapped sum, overflowed when the true sum is above u32::MAX
add(a, b) == Word((a.v + b.v) % U32Mod, a.o \/ b.o \/ a.v + b.v > U32Max)

\* u32 `*` by a small factor, wrapped, by doubling (no product leaves the word)
RECURSIVE wrapping_mul(_, _)
wrapping_mul(a, k) ==
    IF k = 0 THEN 0
    ELSE LET h == wrapping_mul(a, k \div 2) IN
         (((h + h) % U32Mod) + (IF k % 2 = 1 THEN a ELSE 0)) % U32Mod

mul(a, k) == Word(wrapping_mul(a, k), k # 0 /\ a > U32Max \div k)

Panicked(r) == [ret |-> Err("Panic"), id |-> r]

(***************************************************************************)
(* impl From<&Toc> for Cddb.                                               *)
(***************************************************************************)
\* the sum of `b ^ b'0'` over the decimal digits itoa writes for n
RECURSIVE digit_sum(_)
digit_sum(n) == IF n < 10 THEN n ELSE digit_sum(n \div 10) + (n % 10)

\* `for v in src.audio_sectors() { .. a += .. }` over audio[lo..hi], by halves
RECURSIVE cddb_audio(_, _, _)
cddb_audio(audio, lo, hi) ==
    IF lo > hi THEN 0
    ELSE IF lo = hi THEN digit_sum(audio[lo] \div 75)
    ELSE LET mid == (lo + hi) \div 2 IN
         cddb_audio(audio, lo, mid) + cddb_audio(audio, mid + 1, hi)

\* Toc::leadin
leadin(t) == IF t.kind = "DataFirst" THEN t.data ELSE audio_leadin(t)

Cddb_from(t, checks) ==
    LET data == data_sector(t)
        len  == Len(t.audio) + (IF data # None THEN 1 ELSE 0)
        sum  == cddb_audio(t.audio, 1, Len(t.audio))
                + (IF data # None THEN digit_sum(data[1] \div 75) ELSE 0)
        a    == sum % 255
        lo   == t.leadout \div 75
        li   == leadin(t) \div 75
        b    == ((lo - li) % U32Mod) % 65536          \* `as u16`
        c    == len % U8Mod                            \* `as u8`
        out  == Id("Cddb", <<a, b \div 256, b % 256, c>>)
    IN  IF lo < li /\ checks THEN Panicked(NoId)
        ELSE [ret |-> Ok, id |-> out]

(***************************************************************************)
(* impl From<&Toc> for AccurateRip.                                        *)
(***************************************************************************)
\* what the loop over audio[lo..hi] adds to b and to c (idx is the position)
RECURSIVE ar_audio(_, _, _)
ar_audio(audio, lo, hi) ==
    IF lo > hi THEN [b |-> Word(0, FALSE), c |-> Word(0, FALSE)]
    ELSE IF lo = hi
    THEN LET off == saturating_sub(audio[lo], 150) IN
         [b |-> Word(off, FALSE), c |-> mul(max(off, 1), lo)]
    ELSE LET mid == (lo + hi) \div 2
             l   == ar_audio(audio, lo, mid)
             r   == ar_audio(audio, mid + 1, hi)
         IN  [b |-> add(l.b, r.b), c |-> add(l.c, r.c)]

\* the two sums with the leadout folded in
ar_sums(t) ==
    LET loop    == ar_audio(t.audio, 1, Len(t.audio))
        idx     == Len(t.audio) + 1
        leadout == saturating_sub(t.leadout, 150)
    IN  [b |-> add(loop.b, Word(leadout, FALSE)),
         c |-> add(loop.c, mul(max(leadout, 1), idx))]

AccurateRip_from(t, checks) ==
    LET s == ar_sums(t)
        d == Cddb_from(t, checks)
    IN  IF (s.b.o \/ s.c.o) /\ checks THEN Panicked(NoId)
        ELSE IF d.ret # Ok THEN Panicked(NoId)
        ELSE [ret |-> Ok,
              id  |-> Id("AccurateRip",
                         <<Len(t.audio) % U8Mod>> \o to_le_bytes(s.b.v)
                         \o to_le_bytes(s.c.v) \o Reverse(d.id.bytes))]

(***************************************************************************)
(* Display for AccurateRip (AccurateRip::encode) and for Cddb.             *)
(***************************************************************************)
Decimal == <<"0", "1", "2", "3", "4", "5", "6", "7", "8", "9">>

\* dactyl::NiceU8::as_bytes3: three decimal digits, zero padded
as_bytes3(n) ==
    <<Decimal[(n \div 100) + 1], Decimal[((n \div 10) % 10) + 1], Decimal[(n % 10) + 1]>>

\* faster_hex::hex_encode_fallback over a byte slice: two lowercase digits a byte
hex_encode_bytes(bytes) ==
    [i \in 1..(2 * Len(bytes)) |->
        IF i % 2 = 1 THEN HexLower[(bytes[(i + 1) \div 2] \div 16) + 1]
        ELSE HexLower[(bytes[i \div 2] % 16) + 1]]

\* an encode that writes each field's bytes in stored (little-endian) order
AccurateRip_encode_stored_order(b) ==
    as_bytes3(b[1])
    \o <<"-">> \o hex_encode_bytes(<<b[2], b[3], b[4], b[5]>>)
    \o <<"-">> \o hex_encode_bytes(<<b[9], b[8], b[7], b[6]>>)
    \o <<"-">> \o hex_encode_bytes(<<b[13], b[12], b[11], b[10]>>)

AccurateRip_encode(b) ==
    as_bytes3(b[1])
    \o <<"-">> \o hex_encode_bytes(<<b[5], b[4], b[3], b[2]>>)
    \o <<"-">> \o hex_encode_bytes(<<b[9], b[8], b[7], b[6]>>)
    \o <<"-">> \o hex_encode_bytes(<<b[13], b[12], b[11], b[10]>>)

Cddb_to_string(b) == hex_encode_bytes(b)

(***************************************************************************)
(* Toc::ctdb_checksum_url.  `v - 150` is a plain subtraction: below zero   *)
(* it panics when the build has overflow checks and wraps otherwise.       *)
(***************************************************************************)
CTDB_URL ==
    <<"h", "t", "t", "p", ":", "/", "/", "d", "b", ".", "c", "u">>
    \o <<"e", "t", "o", "o", "l", "s", ".", "n", "e", "t", "/", "l">>
    \o <<"o", "o", "k", "u", "p", "2", ".", "p", "h", "p", "?", "v">>
    \o <<"e", "r", "s", "i", "o", "n", "=", "3", "&", "c", "t", "d">>
    \o <<"b", "=", "1", "&", "f", "u", "z", "z", "y", "=", "1", "&">>
    \o <<"t", "o", "c", "=">>

\* itoa::Buffer::format
RECURSIVE itoa(_)
itoa(n) == IF n < 10 THEN <<Decimal[n + 1]>>
           ELSE itoa(n \div 10) \o <<Decimal[(n % 10) + 1]>>

url_value(v) == itoa((v - 150) % U32Mod)

\* `for v in &self.audio { url.push_str(..); url.push(':'); }`, by halves
RECURSIVE url_audio(_, _, _)
url_audio(audio, lo, hi) ==
    IF lo > hi THEN <<>>
    ELSE IF lo = hi THEN url_value(audio[lo]) \o <<":">>
    ELSE LET mid == (lo + hi) \div 2 IN
         url_audio(audio, lo, mid) \o url_audio(audio, mid + 1, hi)

ctdb_checksum_url(t, checks) ==
    LET data  == <<"-">> \o url_value(t.data) \o <<":">>
        under == \/ has_data(t.kind) /\ t.data < 150
                 \/ \E i \in DOMAIN t.audio : t.audio[i] < 150
                 \/ t.leadout < 150
    IN  IF under /\ checks THEN [ret |-> Err("Panic"), url |-> <<>>]
        ELSE [ret |-> Ok,
              url |-> CTDB_URL
                      \o (IF t.kind = "DataFirst" THEN data ELSE <<>>)
                      \o url_audio(t.audio, 1, Len(t.audio))
                      \o (IF t.kind = "CDExtra" THEN data ELSE <<>>)
                      \o url_value(t.leadout)]

(***************************************************************************)
(* Decoders of identifier strings.                                         *)
(***************************************************************************)
DecodeFail(e) == [ret |-> Err(e), id |-> NoId]

\* u32::htou with the value kept as its four big-endian bytes
htou_be_bytes(s) ==
    IF Len(s) = 0 \/ Len(s) > 8 \/ \E i \in DOMAIN s : ~IsHex(s[i])
    THEN None
    ELSE LET p == [i \in 1..(8 - Len(s)) |-> "0"] \o s IN
         Some([i \in 1..4 |-> HexVal(p[2 * i - 1]) * 16 + HexVal(p[2 * i])])

IsDecimal(c) == \E i \in 1..10 : c = Decimal[i]

DecimalVal(c) == (CHOOSE i \in 1..10 : c = Decimal[i]) - 1

\* dactyl's BytesToUnsigned::btou for u8: decimal digits only, at most 255
btou(s) ==
    IF Len(s) = 0 \/ \E i \in DOMAIN s : ~IsDecimal(s[i]) THEN None
    ELSE IF Len(trim_start_zeroes(s)) > 3 THEN None
    ELSE LET t == [i \in 1..(3 - Len(trim_start_zeroes(s))) |-> "0"]
                  \o trim_start_zeroes(s)
             v == DecimalVal(t[1]) * 100 + DecimalVal(t[2]) * 10 + DecimalVal(t[3])
         IN  IF v > 255 THEN None ELSE Some(v)

AccurateRip_decode(src) ==
    IF Len(src) = 30 /\ src[4] = "-" /\ src[13] = "-" /\ src[22] = "-"
    THEN LET a == btou(SubSeq(src, 1, 3))
             b == htou_be_bytes(SubSeq(src, 5, 12))
             c == htou_be_bytes(SubSeq(src, 14, 21))
             d == htou_be_bytes(SubSeq(src, 23, 30))
         IN  IF a = None \/ b = None \/ c = None \/ d = None
             THEN DecodeFail("AccurateRipDecode")
             ELSE [ret |-> Ok,
                   id  |-> Id("AccurateRip",
                              <<a[1]>> \o Reverse(b[1]) \o Reverse(c[1]) \o Reverse(d[1]))]
    ELSE DecodeFail("AccurateRipDecode")

Cddb_decode(src) ==
    IF htou_be_bytes(src) = None THEN DecodeFail("CddbDecode")
    ELSE [ret |-> Ok, id |-> Id("Cddb", htou_be_bytes(src)[1])]

(***************************************************************************)
(* ShaB64: twenty bytes shown as 27 characters of a base64 alphabet and a  *)
(* closing dash.  Shifts and masks are written as divisions and            *)
(* remainders.                                                             *)
(***************************************************************************)
Base64 ==
    <<"A", "B", "C", "D", "E", "F", "G", "H", "I", "J", "K", "L", "M">>
    \o <<"N", "O", "P", "Q", "R", "S", "T", "U", "V", "W", "X", "Y", "Z">>
    \o <<"a", "b", "c", "d", "e", "f", "g", "h", "i", "j", "k", "l", "m">>
    \o <<"n", "o", "p", "q", "r", "s", "t", "u", "v", "w", "x", "y", "z">>
    \o <<"0", "1", "2", "3", "4", "5", "6", "7", "8", "9", ".", "_">>

\* an encoder with the standard alphabet's '+' in slot 62
base64_encode_standard(byte) == IF byte = 62 THEN "+" ELSE Base64[byte + 1]

base64_encode(byte) == Base64[byte + 1]

base64_decode(c) ==
    IF \E i \in 1..64 : c = Base64[i]
    THEN Some((CHOOSE i \in 1..64 : c = Base64[i]) - 1)
    ELSE None

\* characters 4k+1..4k+4 from bytes 3k+1..3k+3, for the six whole chunks
ShaB64_chunk(raw) ==
    <<base64_encode(raw[1] \div 4),
      base64_encode((raw[1] % 4) * 16 + (raw[2] \div 16)),
      base64_encode((raw[2] % 16) * 4 + (raw[3] \div 64)),
      base64_encode(raw[3] % 64)>>

\* a last group that rotates the byte instead of masking it before the shift
last_group_rotated(byte) == ((byte % 64) * 4 + (byte \div 64)) % 64

\* `(self.0[19] & 0b0000_1111) << 2`: the 27th group, its two low bits zero
last_group(byte) == (byte % 16) * 4

ShaB64_to_string(b) ==
    LET whole == [i \in 1..24 |-> ShaB64_chunk(SubSeq(b, 3 * ((i - 1) \div 4) + 1,
                                                      3 * ((i - 1) \div 4) + 3))
                                  [((i - 1) % 4) + 1]]
    IN  whole \o <<base64_encode(b[19] \div 4),
                   base64_encode((b[19] % 4) * 16 + (b[20] \div 16)),
                   base64_encode(last_group(b[20])),
                   "-">>

ShaB64_decode(src) ==
    IF Len(src) = 28 /\ src[28] = "-"
    THEN IF \E i \in 1..27 : base64_decode(src[i]) = None
         THEN DecodeFail("ShaB64Decode")
         ELSE LET v == [i \in 1..27 |-> base64_decode(src[i])[1]]
                  byte(k, j) ==          \* byte j of chunk k (both from 0)
                      LET a == v[4 * k + 1]
                          b == v[4 * k + 2]
                          c == v[4 * k + 3]
                          d == IF k < 6 THEN v[4 * k + 4] ELSE 0
                      IN  IF j = 0 THEN (a % 64) * 4 + (b \div 16)
                          ELSE IF j = 1 THEN (b % 16) * 16 + (c \div 4)
                          ELSE (c % 4) * 64 + (d % 64)
              IN  [ret |-> Ok,
                   id  |-> Id("ShaB64",
                              [i \in 1..20 |-> byte((i - 1) \div 3, (i - 1) % 3)])]
    ELSE DecodeFail("ShaB64Decode")

(***************************************************************************)
(* AccurateRip::parse_checksums.  A checksum is kept as its four bytes,    *)
(* most significant first; a track's map is a function from the checksums  *)
(* seen to their confidence.                                               *)
(***************************************************************************)
ParseFailed(e) == [ret |-> Err(e), sums |-> <<>>]

\* <[u8]>::chunks_exact(size): the whole chunks, a short remainder dropped
chunks_exact(bytes, size) ==
    [r \in 1..(Len(bytes) \div size) |-> SubSeq(bytes, (r - 1) * size + 1, r * size)]

\* u8::wrapping_add in place of saturating_add
wrapping_add_u8(a, b) == (a + b) % 256

\* u8::saturating_add
saturating_add_u8(a, b) == IF a + b > 255 THEN 255 ELSE a + b

\* the nine bytes of track k (from 1) in a chunk, after its 13-byte disc ID
track_entry(chunk, k) == SubSeq(chunk, 13 + 9 * (k - 1) + 1, 13 + 9 * k)

\* u32::from_le_bytes([v[1], v[2], v[3], v[4]]), most significant byte first
entry_crc(v) == <<v[5], v[4], v[3], v[2]>>

\* the confidence kept for crc in track k's map after the first r chunks
RECURSIVE ar_confidence(_, _, _, _)
ar_confidence(chunks, k, crc, r) ==
    IF r = 0 THEN 0
    ELSE LET v == track_entry(chunks[r], k)
             e == ar_confidence(chunks, k, crc, r - 1)
         IN  IF entry_crc(v) = crc THEN saturating_add_u8(e, v[1]) ELSE e

parse_checksums(self, bytes) ==
    LET audio_len  == self[1]
        chunk_size == 13 + 9 * audio_len
        chunks     == chunks_exact(bytes, chunk_size)
        seen(k)    == {entry_crc(track_entry(chunks[r], k)) : r \in DOMAIN chunks}
                      \ {<<0, 0, 0, 0>>}
        out        == [k \in 1..audio_len |->
                          [crc \in seen(k) |-> ar_confidence(chunks, k, crc, Len(chunks))]]
    IN  IF \E r \in DOMAIN chunks : SubSeq(chunks[r], 1, 13) # self
        THEN ParseFailed("Checksums")
        ELSE IF \E k \in 1..audio_len : seen(k) # {}
        THEN [ret |-> Ok, sums |-> out]
        ELSE ParseFailed("NoChecksums")

(***************************************************************************)
(* Toc::ctdb_parse_checksums with parse_entry and parse_attr.              *)
(***************************************************************************)
starts_with(s, prefix) ==
    Len(s) >= Len(prefix) /\ SubSeq(s, 1, Len(prefix)) = prefix

\* str::find: where the first occurrence starts (from 1), or None
find(s, pat) ==
    LET hits == {i \in 1..(Len(s) - Len(pat) + 1) : SubSeq(s, i, i + Len(pat) - 1) = pat}
    IN  IF hits = {} THEN None ELSE Some(Min(hits))

\* str::lines: cut at each "\n", no empty last line, a closing "\r" dropped
lines(s) ==
    LET nl    == {i \in DOMAIN s : s[i] = "\n"}
        count == IF s = <<>> THEN 0
                 ELSE IF s[Len(s)] = "\n" THEN Cardinality(nl)
                 ELSE Cardinality(nl) + 1
        from(k) == IF k = 1 THEN 1
                   ELSE 1 + (CHOOSE i \in nl : Cardinality({j \in nl : j < i}) = k - 2)
        to(k)   == IF k > Cardinality(nl) THEN Len(s)
                   ELSE (CHOOSE i \in nl : Cardinality({j \in nl : j < i}) = k - 1) - 1
        line(k) == SubSeq(s, from(k), to(k))
        cut(l)  == IF l # <<>> /\ l[Len(l)] = "\r" THEN Front(l) ELSE l
    IN  [k \in 1..count |-> cut(line(k))]

\* str::split_ascii_whitespace: the runs of characters that are not blanks
split_ascii_whitespace(s) ==
    LET word(i)  == ~is_ascii_whitespace(s[i])
        starts   == {i \in DOMAIN s : word(i) /\ (i = 1 \/ ~word(i - 1))}
        end(i)   == Min({j \in i..Len(s) : j = Len(s) \/ ~word(j + 1)})
        nth(k)   == CHOOSE i \in starts : Cardinality({j \in starts : j < i}) = k - 1
    IN  [k \in 1..Cardinality(starts) |-> SubSeq(s, nth(k), end(nth(k)))]

parse_attr(line, attr) ==
    LET start == find(line, attr) IN
    IF start = None THEN None
    ELSE LET rest == SubSeq(line, start[1] + Len(attr), Len(line))
             end  == find(rest, <<"\"">>)
         IN  IF end = None THEN None
             ELSE IF 1 < end[1] THEN Some(trim_ascii(SubSeq(rest, 1, end[1] - 1)))
             ELSE None

ATTR_CONFIDENCE == <<" ", "c", "o", "n", "f", "i", "d", "e", "n", "c", "e", "=", "\"">>
ATTR_TRACKCRCS == <<" ", "t", "r", "a", "c", "k", "c", "r", "c", "s", "=", "\"">>
ENTRY == <<"<", "e", "n", "t", "r", "y", " ">>

\* None, or the pair <<confidence, trackcrcs>>
parse_entry(line) ==
    IF starts_with(line, ENTRY)
    THEN LET confidence == parse_attr(line, ATTR_CONFIDENCE)
             crcs       == parse_attr(line, ATTR_TRACKCRCS)
         IN  IF confidence = None \/ crcs = None THEN None
             ELSE Some(<<confidence[1], crcs[1]>>)
    ELSE None

\* str::parse::<u16>: decimal digits after an optional '+', at most 65535
RECURSIVE decimal_value(_)
decimal_value(s) ==
    IF s = <<>> THEN 0 ELSE decimal_value(Front(s)) * 10 + DecimalVal(s[Len(s)])

parse_u16(s) ==
    LET d == IF s # <<>> /\ s[1] = "+" THEN Tail(s) ELSE s IN
    IF d = <<>> \/ \E i \in DOMAIN d : ~IsDecimal(d[i]) THEN None
    ELSE IF Len(trim_start_zeroes(d)) > 5 THEN None
    ELSE IF decimal_value(trim_start_zeroes(d)) > 65535 THEN None
    ELSE Some(decimal_value(trim_start_zeroes(d)))

\* u16::saturating_add
saturating_add_u16(a, b) == IF a + b > 65535 THEN 65535 ELSE a + b

\* What one `<entry ` line does: "Checksums" when the confidence or a
\* checksum does not parse or the count differs from audio_len, "Panic" when
\* a non-zero checksum is filed at `out[id]` with id past the last track
\* (reached before the count is compared), "Ok" otherwise.
entry_outcome(audio_len, entry) ==
    LET chks   == split_ascii_whitespace(entry[2])
        bad    == {i \in DOMAIN chks : htou_be_bytes(chks[i]) = None}
        beyond == {i \in DOMAIN chks :
                      /\ i > audio_len
                      /\ htou_be_bytes(chks[i]) \notin {None, Some(<<0, 0, 0, 0>>)}}
        first  == Min(bad \cup beyond)
    IN  IF parse_u16(entry[1]) = None THEN "Checksums"
        ELSE IF bad \cup beyond # {}
        THEN IF first \in bad THEN "Checksums" ELSE "Panic"
        ELSE IF Len(chks) # audio_len THEN "Checksums"
        ELSE "Ok"

\* the confidence kept for crc in track k's map after the first r entries
RECURSIVE ctdb_confidence(_, _, _, _)
ctdb_confidence(entries, k, crc, r) ==
    IF r = 0 THEN 0
    ELSE LET chks == split_ascii_whitespace(entries[r][2])
             e    == ctdb_confidence(entries, k, crc, r - 1)
         IN  IF htou_be_bytes(chks[k]) = Some(crc)
             THEN saturating_add_u16(e, parse_u16(entries[r][1])[1])
             ELSE e

ctdb_parse_checksums(t, xml) ==
    LET audio_len == Len(t.audio)
        all       == lines(xml)
        found     == {i \in DOMAIN all : parse_entry(trim_ascii(all[i])) # None}
        nth(k)    == CHOOSE i \in found : Cardinality({j \in found : j < i}) = k - 1
        entries   == [k \in 1..Cardinality(found) |-> parse_entry(trim_ascii(all[nth(k)]))[1]]
        failed    == {k \in DOMAIN entries : entry_outcome(audio_len, entries[k]) # "Ok"}
        seen(k)   == {htou_be_bytes(split_ascii_whitespace(entries[r][2])[k])[1] :
                         r \in DOMAIN entries} \ {<<0, 0, 0, 0>>}
        out       == [k \in 1..audio_len |->
                         [crc \in seen(k) |-> ctdb_confidence(entries, k, crc, Len(entries))]]
    IN  IF failed # {}
        THEN ParseFailed(entry_outcome(audio_len, entries[Min(failed)]))
        ELSE IF \E k \in 1..audio_len : seen(k) # {}
        THEN [ret |-> Ok, sums |-> out]
        ELSE ParseFailed("NoChecksums")

(***************************************************************************)
(* Inputs of the identifier operations.                                    *)
(***************************************************************************)
\* the disc of the crate's examples, 4+96+2D2B+6256+B327+D84A
DocParts == [audio |-> <<150, 11563, 25174, 45863>>, data |-> None, leadout |-> 55370]

IdsInputs == PartsInputs \cup {DocParts}

AccurateRipStrings ==
    {<<"0", "0", "4", "-", "0", "0", "0", "2", "1", "8", "9", "a", "-", "0", "0", "0", "8", "7", "f", "3", "3", "-", "1", "f", "0", "2", "e", "0", "0", "4">>,
     <<"2", "5", "5", "-", "F", "F", "F", "F", "F", "F", "F", "F", "-", "0", "0", "0", "0", "0", "0", "0", "0", "-", "8", "0", "0", "0", "0", "0", "0", "1">>,
     <<"0", "0", "0", "-", "0", "0", "0", "0", "0", "0", "0", "0", "-", "0", "0", "0", "0", "0", "0", "0", "0", "-", "0", "0", "0", "0", "0", "0", "0", "0">>,
     <<"0", "0", "1", "-", "0", "0", "0", "0", "0", "0", "0", "1", "-", "0", "0", "0", "0", "0", "0", "0", "2", "-", "0", "0", "0", "0", "0", "0", "0", "3">>,
     <<"0", "0", "2", "-", "0", "0", "0", "0", "0", "1", "2", "c", "-", "0", "0", "0", "0", "0", "1", "f", "4", "-", "0", "a", "0", "b", "0", "c", "0", "d">>,
     <<"0", "0", "4", "-", "0", "0", "0", "2", "1", "8", "9", "a", "-", "0", "0", "0", "8", "7", "f", "3", "3", "-", "1", "f", "0", "2", "e", "0", "0">>,
     <<"0", "0", "4", "0", "-", "0", "0", "2", "1", "8", "9", "a", "-", "0", "0", "0", "8", "7", "f", "3", "3", "-", "1", "f", "0", "2", "e", "0", "0", "4">>,
     <<"2", "5", "6", "-", "0", "0", "0", "2", "1", "8", "9", "a", "-", "0", "0", "0", "8", "7", "f", "3", "3", "-", "1", "f", "0", "2", "e", "0", "0", "4">>,
     <<"0", "0", "4", "-", "0", "0", "0", "2", "1", "8", "9", "g", "-", "0", "0", "0", "8", "7", "f", "3", "3", "-", "1", "f", "0", "2", "e", "0", "0", "4">>}

CddbStrings ==
    {<<"1", "f", "0", "2", "e", "0", "0", "4">>,
     <<"1", "F", "0", "2", "E", "0", "0", "4">>,
     <<"f", "f", "f", "f", "f", "f", "f", "f">>,
     <<"9", "6">>,
     <<"0", "0", "0", "0", "0", "0", "1">>,
     <<"1", "f", "0", "2", "e", "0", "0", "4", "5">>,
     <<"1", "f", "0", "2", "e", "0", "0", "g">>}

ShaB64Strings ==
    {<<"V", "u", "k", "M", "W", "W", "I", "t", "b", "l", "E", "L", "R", "M", ".", "C", "E", "F", "p", "X", "x", "w", "0", "F", "l", "M", "E", "-">>,
     <<"i", "L", "4", "E", "Z", "5", "6", "Y", "D", "5", "W", "m", "G", ".", ".", "M", "4", "v", "5", "q", "z", "P", "G", "0", "c", "F", "Y", "-">>,
     <<"A", "A", "A", "A", "A", "A", "A", "A", "A", "A", "A", "A", "A", "A", "A", "A", "A", "A", "A", "A", "A", "A", "A", "A", "A", "A", "A", "-">>,
     <<"_", "_", "_", "_", "_", "_", "_", "_", "_", "_", "_", "_", "_", "_", "_", "_", "_", "_", "_", "_", "_", "_", "_", "_", "_", "_", "8", "-">>,
     <<"V", "u", "k", "M", "W", "W", "I", "t", "b", "l", "E", "L", "R", "M", ".", "C", "E", "F", "p", "X", "x", "w", "0", "F", "l", "M", "F", "-">>,
     <<"V", "u", "k", "M", "W", "W", "I", "t", "b", "l", "E", "L", "R", "M", ".", "C", "E", "F", "p", "X", "x", "w", "0", "F", "l", "M", "E">>,
     <<"V", "u", "k", "M", "W", "W", "I", "t", "b", "l", "E", "L", "R", "M", "+", "C", "E", "F", "p", "X", "x", "w", "0", "F", "l", "M", "E", "-">>,
     <<"V", "u", "k", "M", "W", "W", "I", "t", "b", "l", "E", "L", "R", "M", ".", "C", "E", "F", "p", "X", "x", "w", "0", "F", "l", "M", "E", "=">>}

IdStrings == AccurateRipStrings \cup CddbStrings \cup ShaB64Strings \cup {<<>>}

\* SHA-1 is not computed: a digest is any of these twenty-byte values
Digests ==
    {[i \in 1..20 |-> 0], [i \in 1..20 |-> 255],
     [i \in 1..20 |-> (i * 37) % 256], [i \in 1..20 |-> 256 - i]}

\* Checksum files for an AccurateRip ID of at most MaxLen tracks: up to
\* MaxRecords records, each the
\* disc ID (right, or with its last byte changed) and one nine-byte entry a
\* track, the entries of a record taken in turn from TrackEntries.
TrackEntries ==
    <<  <<100, 1, 0, 0, 0>>, <<200, 1, 0, 0, 0>>, <<100, 0, 0, 0, 128>>,
        <<200, 0, 0, 0, 128>>, <<100, 0, 0, 0, 0>>, <<200, 0, 0, 0, 0>>  >>

RECURSIVE Flatten(_)
Flatten(ss) == IF ss = <<>> THEN <<>> ELSE Head(ss) \o Flatten(Tail(ss))

BinRecord(self, good, j) ==
    (IF good THEN self ELSE [self EXCEPT ![13] = (@ + 1) % 256])
    \o Flatten([k \in 1..self[1] |->
                   TrackEntries[((j + k - 2) % Len(TrackEntries)) + 1] \o <<0, 0, 0, 0>>])

BinInputs(self) ==
    IF self[1] > MaxLen THEN {} ELSE
    {Flatten(rs) :
        rs \in SeqsUpTo({BinRecord(self, good, j) :
                            good \in BOOLEAN, j \in 1..Len(TrackEntries)}, MaxRecords)}

\* CTDB lookups for a disc of n tracks: an optional header and good entry,
\* then one entry with n - 1, n or n + 1 checksums, and the closing tag.
CrcWords == {<<"0">>, <<"1", "F">>}
Confidences == {<<"1">>, <<"6", "5", "5", "3", "5">>}

RECURSIVE join_with(_, _)
join_with(words, sep) ==
    IF words = <<>> THEN <<>>
    ELSE IF Len(words) = 1 THEN words[1]
    ELSE words[1] \o sep \o join_with(Tail(words), sep)

EntryLine(confidence, crcs) ==
    ENTRY \o <<"i", "d", "=", "\"", "7", "\"">>
    \o ATTR_CONFIDENCE \o confidence \o <<"\"">>
    \o ATTR_TRACKCRCS \o join_with(crcs, <<" ">>) \o <<"\"", " ", "/", ">", "\n">>

XmlHeader == <<"<", "c", "t", "d", "b", ">", "\r", "\n", " ", " ">>
XmlFooter == <<"<", "/", "c", "t", "d", "b", ">">>

CrcLists(n) ==
    {l \in SeqsUpTo(CrcWords, n + 1) : Len(l) >= n - 1}

XmlInputs(n) ==
    IF n > MaxLen THEN {}
    ELSE {head \o EntryLine(c, l) \o XmlFooter :
             head \in {<<>>, XmlHeader \o EntryLine(<<"1">>, [k \in 1..n |-> <<"1", "F">>])},
             c \in Confidences, l \in CrcLists(n)}

(***************************************************************************)
(* The caller of the identifier operations.  Either a Toc is constructed   *)
(* and an identifier, the lookup URL or the checksums of a lookup are      *)
(* derived from it, or an identifier is decoded from a string; an          *)
(* identifier is shown and the string decoded again, and a checksum file   *)
(* is parsed with a decoded AccurateRip ID.                                *)
(***************************************************************************)
InitIds ==
    /\ Fresh
    /\ \/ input \in IdsInputs /\ text = None
       \/ input = NoInput /\ text \in {Some(t) : t \in IdStrings}

Constructed == call.op = "from_parts" /\ ret = Ok

Derive(op, r) ==
    /\ id' = r.id /\ ret' = r.ret /\ preid' = id
    /\ Record(Call(op, "None", 0, <<>>))
    /\ calls' = calls + 1
    /\ UNCHANGED <<toc, text, input, bin, sums, args, got>>

AccurateRipId ==
    /\ Constructed
    /\ \E checks \in BOOLEAN : Derive("accuraterip_id", AccurateRip_from(toc, checks))

CddbId ==
    /\ Constructed
    /\ \E checks \in BOOLEAN : Derive("cddb_id", Cddb_from(toc, checks))

\* Toc::ctdb_id and Toc::musicbrainz_id end in ShaB64::from(sha)
ShaB64From ==
    /\ Constructed
    /\ \E d \in Digests : Derive("ShaB64::from", [ret |-> Ok, id |-> Id("ShaB64", d)])

CtdbChecksumUrl ==
    /\ Constructed
    /\ \E checks \in BOOLEAN :
         LET r == ctdb_checksum_url(toc, checks) IN
         /\ ret' = r.ret
         /\ text' = IF r.ret = Ok THEN Some(r.url) ELSE None
    /\ Record(Call("ctdb_checksum_url", "None", 0, <<>>))
    /\ calls' = calls + 1
    /\ UNCHANGED <<toc, input, ids>>

CtdbParseChecksums ==
    /\ Constructed
    /\ \E xml \in XmlInputs(Len(toc.audio)) :
         LET r == ctdb_parse_checksums(toc, xml) IN
         /\ ret' = r.ret /\ sums' = r.sums
         /\ Record(Call("ctdb_parse_checksums", "None", 0, xml))
    /\ calls' = calls + 1
    /\ UNCHANGED <<toc, text, input, id, preid, bin, args, got>>

IdOps == {"accuraterip_id", "cddb_id", "ShaB64::from",
          "AccurateRip::decode", "Cddb::decode", "ShaB64::decode"}

IdToString ==
    /\ call.op \in IdOps /\ ret = Ok /\ calls < MaxCalls
    /\ text' = Some(IF id.type = "AccurateRip" THEN AccurateRip_encode(id.bytes)
                    ELSE IF id.type = "Cddb" THEN Cddb_to_string(id.bytes)
                    ELSE ShaB64_to_string(id.bytes))
    /\ ret' = Ok /\ preid' = id
    /\ Record(Call("id_to_string", "None", 0, <<>>))
    /\ calls' = calls + 1
    /\ UNCHANGED <<toc, input, id, bin, sums, args, got>>

Decode(op, r) ==
    /\ call.op \in {"new", "id_to_string"} /\ text # None
    /\ id' = r.id /\ ret' = r.ret /\ preid' = id
    /\ Record(Call(op, "None", 0, text[1]))
    /\ text' = None
    /\ calls' = calls + 1
    /\ UNCHANGED <<toc, input, bin, sums, args, got>>

AccurateRipDecode ==
    text # None /\ Decode("AccurateRip::decode", AccurateRip_decode(text[1]))

CddbDecode ==
    text # None /\ Decode("Cddb::decode", Cddb_decode(text[1]))

ShaB64Decode ==
    text # None /\ Decode("ShaB64::decode", ShaB64_decode(text[1]))

ParseChecksums ==
    /\ call.op = "AccurateRip::decode" /\ ret = Ok /\ call2.op = "new"
    /\ \E b \in BinInputs(id.bytes) :
         LET r == parse_checksums(id.bytes, b) IN
         /\ ret' = r.ret /\ sums' = r.sums /\ bin' = b
    /\ Record(Call("parse_checksums", "None", 0, <<>>))
    /\ calls' = calls + 1
    /\ UNCHANGED <<toc, text, input, id, preid, args, got>>

NextIds ==
    \/ FromParts
    \/ AccurateRipId \/ CddbId \/ ShaB64From \/ CtdbChecksumUrl \/ CtdbParseChecksums
    \/ IdToString
    \/ AccurateRipDecode \/ CddbDecode \/ ShaB64Decode
    \/ ParseChecksums

SpecIds == InitIds /\ [][NextIds]_vars

(***************************************************************************)
(* Tracks and durations.  A Duration is a count of sectors (u64); a u32    *)
(* difference is a Word: its wrapped value and whether the plain `-` of    *)
(* the source went below zero on the way.                                  *)
(***************************************************************************)
\* Toc::audio_leadout
audio_leadout(t) ==
    IF t.kind = "CDExtra" THEN saturating_sub(t.data, 11400) ELSE t.leadout

\* impl From<(usize, usize)> for TrackPosition
TrackPosition(num, len) ==
    IF num = 0 \/ len < num THEN "Invalid"
    ELSE IF num = 1 THEN (IF len = 1 THEN "Only" ELSE "First")
    ELSE IF num = len THEN "Last"
    ELSE "Middle"

Track(num, pos, from, to) == [num |-> num, pos |-> pos, from |-> from, to |-> to]

\* u32 `-`: the wrapped difference, overflowed when the true one is negative
sub(a, b) == Word((a - b) % U32Mod, a < b)

\* Toc::audio_track
audio_track(t, num) ==
    LET len == Len(t.audio) IN
    IF num = 0 \/ len < num THEN None
    ELSE Some(Track(num % U8Mod, TrackPosition(num, len), t.audio[num],
                    IF num < len THEN t.audio[num + 1] ELSE audio_leadout(t)))

\* Tracks::next with the iterator at `pos`
Tracks_next(tracks, leadout, pos) ==
    LET len == Len(tracks) IN
    IF len <= pos THEN None
    ELSE Some(Track((pos + 1) % U8Mod, TrackPosition(pos + 1, len), tracks[pos + 1],
                    IF pos + 1 < len THEN tracks[pos + 2] ELSE leadout))

\* Toc::audio_tracks, collected: what next() yields from Tracks::new(audio,
\* audio_leadout) on, until it first returns None
audio_tracks(t) ==
    LET leadout == audio_leadout(t)
        end     == Min({pos \in 0..Len(t.audio) : Tracks_next(t.audio, leadout, pos) = None})
    IN  [i \in 1..end |-> Tracks_next(t.audio, leadout, i - 1)[1]]

\* a Track::sectors that saturates at zero instead of subtracting plainly
sectors_saturating(track) == Word(saturating_sub(track.to, track.from), FALSE)

\* Track::sectors (Track::duration is its value as u64)
sectors(track) == sub(track.to, track.from)

\* a Toc::duration measured to the disc leadout whatever the kind
duration_to_leadout(t) == sub(t.leadout, audio_leadin(t))

\* Toc::duration
duration(t) == sub(audio_leadout(t), audio_leadin(t))

\* `iter.fold(Self::default(), |a, b| a + b)` of the first k track durations,
\* by halves; the u64 sum never overflows
RECURSIVE sum_range(_, _, _)
sum_range(src, lo, hi) ==
    IF lo > hi THEN 0
    ELSE IF lo = hi THEN src[lo]
    ELSE LET mid == (lo + hi) \div 2 IN
         sum_range(src, lo, mid) + sum_range(src, mid + 1, hi)

\* `toc.audio_tracks().map(|t| t.duration()).sum()`
sum_tracks(t) ==
    LET tracks == audio_tracks(t)
        each   == [i \in DOMAIN tracks |-> sectors(tracks[i])]
    IN  [tracks |-> tracks,
         sum    |-> Word(sum_range([i \in DOMAIN each |-> each[i].v], 1, Len(each)),
                         \E i \in DOMAIN each : each[i].o)]

\* a from_durations that drops the last duration instead of making it the leadout
leadout_at_last_track(audio) == audio[max(1, Len(audio) - 1)]

\* `audio.remove(audio.len() - 1)`: the value removed
removed_last(audio) == audio[Len(audio)]

\* Toc::from_durations.  The loop stops with SectorSize at the first duration
\* that does not fit a u32 or takes the running sum above u32::MAX.
from_durations(src, given) ==
    LET first == IF given = None THEN 150 ELSE given[1]
        bad   == {i \in DOMAIN src :
                    src[i] > U32Max \/ first + sum_range(src, 1, i) > U32Max}
    IN  IF bad # {} THEN Fail(Err("SectorSize"))
        ELSE LET audio == <<first>> \o [i \in DOMAIN src |-> first + sum_range(src, 1, i)]
             IN  from_parts(remove_last(audio), None, removed_last(audio))

(***************************************************************************)
(* Toc::ctdb_id.  SHA-1 is not computed: the result is the characters fed  *)
(* to it, in order.  `src` is the sixteen-byte buffer of raw values and    *)
(* `dst` the thirty-two characters of their hex, both reused from batch to *)
(* batch and both b'0' (48, "0") at first.                                 *)
(***************************************************************************)
CHUNK_SIZE == 4

ZEROES == [i \in 1..792 |-> "0"]

to_be_bytes(v) == Reverse(to_le_bytes(v))

\* `for (s_chunk, v) in src.chunks_exact_mut(4).zip(values)`: the first
\* Len(values) four-byte slots of src are overwritten, the others kept
copy_from_slices(src, values) ==
    [i \in DOMAIN src |->
        LET slot == ((i - 1) \div 4) + 1 IN
        IF slot <= Len(values) THEN to_be_bytes(values[slot])[((i - 1) % 4) + 1]
        ELSE src[i]]

\* faster_hex::hex_encode(bytes, &mut dst[..2 * len]): the rest of dst is kept
hex_encode_into(bytes, dst) ==
    hex_encode_bytes(bytes) \o SubSeq(dst, 2 * Len(bytes) + 1, Len(dst))

\* hashing the whole of dst after the last, partial batch
whole_buffer(dst, len) == dst

\* `&mut dst[..len]`
slice_to(dst, len) == SubSeq(dst, 1, len)

\* One pass of `for v in sectors.chunks_exact(CHUNK_SIZE)`
ctdb_batch(st, values) ==
    LET src == copy_from_slices(st.src, values)
        dst == make_ascii_uppercase(hex_encode_into(src, st.dst))
    IN  [src |-> src, dst |-> dst, fed |-> st.fed \o dst]

RECURSIVE ctdb_batches(_, _, _)
ctdb_batches(chunks, k, st) ==
    IF k > Len(chunks) THEN st
    ELSE ctdb_batches(chunks, k + 1, ctdb_batch(st, chunks[k]))

\* Toc::ctdb_id up to ShaB64::from(sha): [ret, fed].  A `-` below zero
\* panics where it is evaluated when the build has overflow checks.
ctdb_id(t, checks) ==
    LET first   == t.audio[1]
        rest    == Tail(t.audio)
        len     == Len(rest)
        rem     == len % CHUNK_SIZE
        diffs   == [i \in DOMAIN rest |-> sub(rest[i], first)]
        values  == [i \in DOMAIN rest |-> diffs[i].v]
        chunks  == chunks_exact(values, CHUNK_SIZE)
        bad     == {i \in DOMAIN rest : diffs[i].o}
        \* the batches that ran before a panic, if any
        ran     == IF checks /\ bad # {}
                   THEN Min({(Min(bad) - 1) \div CHUNK_SIZE, Len(chunks)})
                   ELSE Len(chunks)
        st      == ctdb_batches(SubSeq(chunks, 1, ran), 1,
                                [src |-> [i \in 1..(CHUNK_SIZE * 4) |-> 48],
                                 dst |-> [i \in 1..(CHUNK_SIZE * 8) |-> "0"],
                                 fed |-> <<>>])
        term    == sub(audio_leadout(t), first)
    IN  IF checks /\ (bad # {} \/ term.o)
        THEN [ret |-> Err("Panic"), fed |-> st.fed]
        ELSE LET tail ==
                   IF rem = 0
                   THEN LET dst2 == slice_to(hex_encode_into(to_be_bytes(term.v), st.dst), 8)
                        IN  make_ascii_uppercase(dst2)
                   ELSE LET src == copy_from_slices(st.src,
                                       SubSeq(values, len - rem + 1, len) \o <<term.v>>)
                            src_to == rem * 4 + 4
                            dst == hex_encode_into(SubSeq(src, 1, src_to), st.dst)
                        IN  make_ascii_uppercase(slice_to(dst, src_to * 2))
                 padding == 99 - len
             IN  [ret |-> Ok,
                  fed |-> st.fed \o tail
                          \o (IF padding # 0 THEN SubSeq(ZEROES, 1, padding * 8) ELSE <<>>)]

(***************************************************************************)
(* AccurateRip::parse_drive_offsets.  The raw list is a sequence of bytes; *)
(* the result maps (vendor, model), each a sequence of bytes, to an i16.   *)
(***************************************************************************)
BLOCK_SIZE == 69
DRIVE_OFFSET_VENDOR_MAX == 8
DRIVE_OFFSET_MODEL_MAX == 16

\* DRIVE_OFFSET_OFFSET_RNG with its end included as well
offset_rng_end_inclusive(offset) == -2940 <= offset /\ offset <= 2941

\* DRIVE_OFFSET_OFFSET_RNG.contains(&offset)
DRIVE_OFFSET_OFFSET_RNG(offset) == -2940 <= offset /\ offset < 2941

i16_from_le_bytes(lo, hi) ==
    LET v == lo + 256 * hi IN IF v >= 32768 THEN v - 65536 ELSE v

\* u8::is_ascii
is_ascii(b) == b < 128

\* trim_vm: char::is_ascii_whitespace or char::is_ascii_control
trim_vm(b) == b \in {32, 9, 10, 12, 13} \/ b < 32 \/ b = 127

\* str::trim_matches(trim_vm)
trim_matches(s) ==
    LET keep == {i \in DOMAIN s : ~trim_vm(s[i])} IN
    IF keep = {} THEN <<>>
    ELSE SubSeq(s, Min(keep), CHOOSE i \in keep : \A j \in keep : j <= i)

\* str::strip_prefix
strip_prefix(s, prefix) ==
    IF Len(prefix) <= Len(s) /\ SubSeq(s, 1, Len(prefix)) = prefix
    THEN Some(SubSeq(s, Len(prefix) + 1, Len(s)))
    ELSE None

\* str::splitn(2, sep): the text before the first sep, and the text after it
\* if there is one
splitn2(s, sep) ==
    LET at == {i \in 1..(Len(s) - Len(sep) + 1) : SubSeq(s, i, i + Len(sep) - 1) = sep} IN
    IF at = {} THEN <<s>>
    ELSE <<SubSeq(s, 1, Min(at) - 1), SubSeq(s, Min(at) + Len(sep), Len(s))>>

\* the vendor and model of a block's text: `let (vendor, model) = ...`
vendor_model(vm) ==
    LET stripped == strip_prefix(vm, <<45, 32>>) IN
    IF stripped # None
    THEN [vendor |-> <<>>, model |-> trim_matches(stripped[1])]
    ELSE LET parts == splitn2(vm, <<32, 45, 32>>) IN
         [vendor |-> trim_matches(parts[1]),
          model  |-> trim_matches(IF Len(parts) > 1 THEN parts[2] ELSE <<>>)]

\* BTreeMap::insert
insert(map, vendor, model, offset) ==
    {e \in map : ~(e.vendor = vendor /\ e.model = model)}
    \cup {[vendor |-> vendor, model |-> model, offset |-> offset]}

\* The body of `for chunk in raw.chunks_exact(BLOCK_SIZE)` from block k on:
\* [ret, offsets]
RECURSIVE parse_blocks(_, _, _)
parse_blocks(chunks, k, map) ==
    IF k > Len(chunks)
    THEN IF map = {} THEN [ret |-> Err("NoDriveOffsets"), offsets |-> {}]
         ELSE [ret |-> Ok, offsets |-> map]
    ELSE LET chunk  == chunks[k]
             offset == i16_from_le_bytes(chunk[1], chunk[2])
             vm     == SubSeq(chunk, 3, 34)
         IN  IF \E i \in DOMAIN vm : ~is_ascii(vm[i])
             THEN [ret |-> Err("DriveOffsetDecode"), offsets |-> {}]
             ELSE LET f == vendor_model(vm) IN
                  IF f.model = <<>> THEN parse_blocks(chunks, k + 1, map)
                  ELSE IF /\ DRIVE_OFFSET_OFFSET_RNG(offset)
                          /\ Len(f.vendor) <= DRIVE_OFFSET_VENDOR_MAX
                          /\ Len(f.model) <= DRIVE_OFFSET_MODEL_MAX
                          /\ \A i \in DOMAIN f.vendor : is_ascii(f.vendor[i])
                          /\ \A i \in DOMAIN f.model : is_ascii(f.model[i])
                  THEN parse_blocks(chunks, k + 1, insert(map, f.vendor, f.model, offset))
                  ELSE [ret |-> Err("DriveOffsetDecode"), offsets |-> {}]

parse_drive_offsets(raw) ==
    IF Len(raw) < BLOCK_SIZE THEN [ret |-> Err("NoDriveOffsets"), offsets |-> {}]
    ELSE parse_blocks(chunks_exact(raw, BLOCK_SIZE), 1, {})

(***************************************************************************)
(* Inputs of the track operations.                                         *)
(***************************************************************************)
TrackVals == {100, 150, 200, 300, 20000, 20100, U32Max}

TrackInputs ==
    [audio : SeqsUpTo(TrackVals, MaxLen)
             \cup {LongAudio(n) : n \in {4, 5, 6, 7, 8, MaxTracks - 1, MaxTracks}},
     data : {None} \cup {Some(d) : d \in TrackVals},
     leadout : TrackVals]

\* Durations are u64 sectors: the last of these does not fit a u32, and the
\* third from last takes the default leadin to the largest word exactly.
DurationVals == {0, 1, 50, U32Max - 150, U32Max, U32Max + 1}

DurationInputs ==
    SeqsUpTo(DurationVals, MaxLen)
    \cup {[i \in 1..n |-> 1] : n \in {MaxTracks, MaxTracks + 1}}

LeadinArgs == {None} \cup {Some(l) : l \in LeadinVals}

\* The ASCII codes of the characters the texts below are written with.
Upper == <<"A", "B", "C", "D", "E", "F", "G", "H", "I", "J", "K", "L", "M",
           "N", "O", "P", "Q", "R", "S", "T", "U", "V", "W", "X", "Y", "Z">>
Lower == <<"a", "b", "c", "d", "e", "f", "g", "h", "i", "j", "k", "l", "m",
           "n", "o", "p", "q", "r", "s", "t", "u", "v", "w", "x", "y", "z">>

as_byte(c) ==
    IF c = " " THEN 32
    ELSE IF c = "-" THEN 45
    ELSE IF \E k \in DOMAIN Decimal : Decimal[k] = c
    THEN 47 + (CHOOSE k \in DOMAIN Decimal : Decimal[k] = c)
    ELSE IF \E k \in DOMAIN Upper : Upper[k] = c
    THEN 64 + (CHOOSE k \in DOMAIN Upper : Upper[k] = c)
    ELSE 96 + (CHOOSE k \in DOMAIN Lower : Lower[k] = c)

as_bytes(s) == [i \in DOMAIN s |-> as_byte(s[i])]

PIONEER == as_bytes(<<"P", "I", "O", "N", "E", "E", "R">>)
BDR_X13U == as_bytes(<<"B", "D", "-", "R", "W", " ", " ", " ",
                       "B", "D", "R", "-", "X", "1", "3", "U">>)
SEPARATOR == as_bytes(<<" ", "-", " ">>)

\* The text of the manifest's fourth block: "PIONEER  - BD-RW   BDR-X13U"
MANIFEST_X13U == PIONEER \o <<32>> \o SEPARATOR \o BDR_X13U

\* Vendor/model texts: the manifest's Pioneer drive, a drive without a
\* vendor, texts without a model or without a separator, a vendor and a model
\* that are too long, blanks to trim, and texts with a byte that is not ASCII.
OffsetTexts ==
    {MANIFEST_X13U,
     as_bytes(<<"-", " ", "D", "V", "D", "-", "R", "O", "M">>),
     as_bytes(<<"H", "P", " ", "-", " ">>),
     as_bytes(<<"N", "o", "S", "e", "p", "a", "r", "a", "t", "o", "r">>),
     as_bytes(<<"L", "O", "N", "G", "V", "E", "N", "D", "O", "R", " ", "-", " ", "M">>),
     as_bytes(<<"V", " ", "-", " ">>) \o BDR_X13U \o as_bytes(<<"X">>),
     as_bytes(<<" ", "H", "P", " ", " ", "-", " ", " ", "C", "D", " ">>),
     <<233>> \o SEPARATOR \o as_bytes(<<"M">>),
     <<233>> \o SEPARATOR}

\* Offsets as two little-endian bytes: 667, 2940, 2941, -2940 and -2941.
OffsetBytes == {<<155, 2>>, <<124, 11>>, <<125, 11>>, <<132, 244>>, <<131, 244>>}

\* One block: the offset, the text padded with NULs to 32 bytes, and 35
\* bytes the parser ignores.
Block(offset, vm) ==
    offset \o vm \o [i \in 1..(32 - Len(vm)) |-> 0] \o [i \in 1..(BLOCK_SIZE - 34) |-> 1]

Blocks ==
    {Block(<<155, 2>>, vm) : vm \in OffsetTexts}
    \cup {Block(o, vm) : o \in OffsetBytes,
                         vm \in {MANIFEST_X13U,
                                 as_bytes(<<"H", "P", " ", "-", " ">>)}}

\* Raw lists: up to MaxBlocks blocks, whole or with the last byte missing or
\* one more byte after them.
OffsetInputs ==
    LET whole == {Flatten(bs) : bs \in SeqsUpTo(Blocks, MaxBlocks)} IN
    whole \cup {Front(r) : r \in {w \in whole : Len(w) = BLOCK_SIZE}}
          \cup {Append(r, 0) : r \in {w \in whole : Len(w) = BLOCK_SIZE}}

(***************************************************************************)
(* The caller of the track operations: a Toc is constructed from its parts *)
(* or from durations and then asked for a track and its duration, for its  *)
(* duration and the sum of its tracks' durations, or for the input of its  *)
(* CTDB ID; or a drive offset list is parsed.                              *)
(***************************************************************************)
InitTracks ==
    /\ Fresh /\ text = None
    /\ input \in TrackInputs \cup {NoInput}

Built == call.op \in {"from_parts", "from_durations"} /\ ret = Ok

FromDurations ==
    /\ call.op = "new" /\ input = NoInput /\ text = None
    /\ \E src \in DurationInputs, given \in LeadinArgs :
         LET r == from_durations(src, given) IN
         /\ toc' = r.toc /\ ret' = r.ret
         /\ args' = [src |-> src, leadin |-> given, num |-> 0]
    /\ Record(Call("from_durations", "None", 0, <<>>))
    /\ UNCHANGED <<text, input, calls, id, preid, bin, sums, got>>

\* The track numbers asked for: around both ends of the list.
TrackNums(len) == {n \in 0..(len + 1) : n <= MaxLen + 1 \/ n >= len - 1}

AudioTrack ==
    /\ Built
    /\ \E num \in TrackNums(Len(toc.audio)) :
         /\ got' = [NoGot EXCEPT !.track = audio_track(toc, num)]
         /\ args' = [args EXCEPT !.num = num]
    /\ ret' = Ok
    /\ Record(Call("audio_track", "None", 0, <<>>))
    /\ calls' = calls + 1
    /\ UNCHANGED <<toc, text, input, id, preid, bin, sums>>

\* A u32 difference taken by the build: a panic, or its (wrapped) value
Taken(w, checks) == IF checks /\ w.o THEN Err("Panic") ELSE Ok

TrackDuration ==
    /\ call.op = "audio_track" /\ got.track # None
    /\ \E checks \in BOOLEAN :
         LET w == sectors(got.track[1]) IN
         /\ ret' = Taken(w, checks)
         /\ got' = IF checks /\ w.o THEN got ELSE [got EXCEPT !.duration = w.v]
    /\ Record(Call("Track::duration", "None", 0, <<>>))
    /\ calls' = calls + 1
    /\ UNCHANGED <<toc, text, input, id, preid, bin, sums, args>>

TocDuration ==
    /\ Built
    /\ \E checks \in BOOLEAN :
         LET w == duration(toc) IN
         /\ ret' = Taken(w, checks)
         /\ got' = IF checks /\ w.o THEN NoGot ELSE [NoGot EXCEPT !.duration = w.v]
    /\ Record(Call("duration", "None", 0, <<>>))
    /\ calls' = calls + 1
    /\ UNCHANGED <<toc, text, input, id, preid, bin, sums, args>>

SumTracks ==
    /\ call.op = "duration" /\ ret = Ok
    /\ \E checks \in BOOLEAN :
         LET r == sum_tracks(toc) IN
         /\ ret' = Taken(r.sum, checks)
         /\ got' = IF checks /\ r.sum.o THEN got
                   ELSE [got EXCEPT !.tracks = r.tracks, !.sum = r.sum.v]
    /\ Record(Call("audio_tracks", "None", 0, <<>>))
    /\ calls' = calls + 1
    /\ UNCHANGED <<toc, text, input, id, preid, bin, sums, args>>

CtdbId ==
    /\ Built
    /\ \E checks \in BOOLEAN :
         LET r == ctdb_id(toc, checks) IN
         /\ ret' = r.ret
         /\ got' = [NoGot EXCEPT !.fed = r.fed]
    /\ Record(Call("ctdb_id", "None", 0, <<>>))
    /\ calls' = calls + 1
    /\ UNCHANGED <<toc, text, input, id, preid, bin, sums, args>>

ParseDriveOffsets ==
    /\ call.op = "new" /\ input = NoInput /\ text = None
    /\ \E raw \in OffsetInputs :
         LET r == parse_drive_offsets(raw) IN
         /\ ret' = r.ret /\ bin' = raw
         /\ got' = [NoGot EXCEPT !.offsets = r.offsets]
    /\ Record(Call("parse_drive_offsets", "None", 0, <<>>))
    /\ calls' = calls + 1
    /\ UNCHANGED <<toc, text, input, id, preid, sums, args>>

NextTracks ==
    \/ FromParts \/ FromDurations
    \/ AudioTrack \/ TrackDuration
    \/ TocDuration \/ SumTracks
    \/ CtdbId
    \/ ParseDriveOffsets

SpecTracks == InitTracks /\ [][NextTracks]_vars

(***************************************************************************)
(* Properties.                                                             *)
(***************************************************************************)
IsToc == toc.kind \in Kinds

StrictlyIncreasing(a) == \A i \in 1..(Len(a) - 1) : a[i] < a[i + 1]

\* C1: when set_audio_leadin or set_kind returns an error, the Toc is left
\* exactly as it was before the call.
C1_ErrorLeavesTocUnchanged ==
    (/\ call.op \in {"set_audio_leadin", "set_kind"}
     /\ ret.tag \in {"LeadinSize", "Format", "SectorSize", "NoAudio"})
    => toc = pre

\* C2: the audio track count of every Toc reached from a successful
\* constructor through set_kind and set_audio_leadin is within 1..=99.
C2_TrackCountInRange ==
    IsToc => (1 <= Len(toc.audio) /\ Len(toc.audio) <= MaxTracks)

\* C3: the first audio sector of every Toc reached from a successful
\* constructor through set_kind and set_audio_leadin is at least 150, so
\* audio_leadin() - 150 does not underflow.
C3_LeadinAtLeast150 ==
    IsToc => audio_leadin(toc) - MinLeadin >= 0

\* C4: in every Toc reached from a successful constructor through set_kind
\* and set_audio_leadin the audio sectors are strictly increasing, the
\* leadout is above every audio sector and the data sector, a DataFirst
\* disc has data < audio[0] and a CDExtra disc audio[last] < data < leadout.
C4_SectorsOrdered ==
    IsToc =>
        /\ StrictlyIncreasing(toc.audio)
        /\ \A i \in DOMAIN toc.audio : toc.audio[i] < toc.leadout
        /\ toc.data < toc.leadout
        /\ toc.kind = "DataFirst" => toc.data < toc.audio[1]
        /\ toc.kind = "CDExtra" =>
              toc.audio[Len(toc.audio)] < toc.data /\ toc.data < toc.leadout

\* C5: from_parts returns Ok exactly when the parts are valid (1..=99
\* audio sectors, first >= 150, strictly increasing, leadout above the last,
\* data absent, below the first audio sector, or between the last one and
\* the leadout); the kind is then Audio, DataFirst or CDExtra respectively
\* and the stored sectors are the inputs; otherwise the error is the first
\* of NoAudio, TrackCount, LeadinSize, SectorOrder that applies.
C5_Outcome(a, d, l) ==
    IF Len(a) = 0 THEN "NoAudio"
    ELSE IF Len(a) > MaxTracks THEN "TrackCount"
    ELSE IF a[1] < MinLeadin THEN "LeadinSize"
    ELSE IF ~StrictlyIncreasing(a) \/ ~(l > a[Len(a)]) THEN "SectorOrder"
    ELSE IF d = None THEN "Audio"
    ELSE IF d[1] < a[1] THEN "DataFirst"
    ELSE IF a[Len(a)] < d[1] /\ d[1] < l THEN "CDExtra"
    ELSE "SectorOrder"

C5_FromParts ==
    call.op = "from_parts" =>
        LET want == C5_Outcome(input.audio, input.data, input.leadout) IN
        IF want \in Kinds
        THEN /\ ret = Ok
             /\ toc.kind = want
             /\ toc.audio = input.audio
             /\ data_sector(toc) = input.data
             /\ toc.leadout = input.leadout
        ELSE ret = Err(want) /\ ~IsToc

C5_Witness ==
    /\ call.op = "from_parts" /\ ret = Ok
    /\ toc.kind = "CDExtra" /\ Len(toc.audio) = MaxTracks

\* C6: for every Toc x (any kind, any permitted data sector, any state the
\* mutators reach), from_cdtoc(x.to_string()) returns Ok(x).
C6_TextRoundTrip ==
    (call.op = "from_cdtoc" /\ call2.op = "to_string")
    => (ret = Ok /\ toc = pre2)

\* C7 as stated: for every text t that from_cdtoc accepts,
\* from_cdtoc(t).to_string() is t with its hex digits uppercased and the
\* leading zeros of each group removed, the group order and the X marker
\* kept as they are in t.
C7_Marked(g) == Len(g) >= 1 /\ g[1] \in {"X", "x"}

C7_UpperDigits(g) ==
    [i \in DOMAIN g |-> IF IsHex(g[i]) THEN to_ascii_uppercase(g[i]) ELSE g[i]]

C7_GroupAsClaimed(g) ==
    IF C7_Marked(g)
    THEN <<g[1]>> \o C7_UpperDigits(trim_start_zeroes(Tail(g)))
    ELSE C7_UpperDigits(trim_start_zeroes(g))

RECURSIVE C7_Join(_)
C7_Join(groups) ==
    IF Len(groups) = 1 THEN groups[1]
    ELSE C7_Join(Front(groups)) \o <<"+">> \o groups[Len(groups)]

C7_CanonAsClaimed(t) ==
    LET g == split(t) IN C7_Join([i \in DOMAIN g |-> C7_GroupAsClaimed(g[i])])

C7_Case == call.op = "to_string" /\ call2.op = "from_cdtoc" /\ ret2 = Ok

C7_DisplayIsCanonicalInput ==
    C7_Case => text = Some(C7_CanonAsClaimed(call2.text))

\* C7 as amended: for every text t that from_cdtoc accepts and that lists
\* its trailing groups as Display does for the kind parsed (the leadout
\* alone for Audio; the unmarked data, then the leadout for CDExtra; the
\* leadout, then the x/X-marked data for DataFirst),
\* from_cdtoc(t).to_string() is t with the surrounding whitespace trimmed,
\* every character uppercased (the marker included) and every leading zero
\* of each group removed.
C7_Group(g) ==
    IF C7_Marked(g)
    THEN <<"X">> \o C7_UpperDigits(trim_start_zeroes(Tail(g)))
    ELSE C7_UpperDigits(trim_start_zeroes(g))

C7_Canon(t) ==
    LET g == split(trim_ascii(t)) IN C7_Join([i \in DOMAIN g |-> C7_Group(g[i])])

C7_Digits(g) == IF C7_Marked(g) THEN Tail(g) ELSE g

C7_InDisplayOrder(t, parsed) ==
    LET g == split(trim_ascii(t))
        n == Len(parsed.audio)
    IN  \/ parsed.kind = "Audio"
        \/ /\ parsed.kind = "CDExtra"
           /\ ~C7_Marked(g[n + 3])
           /\ htou(g[n + 2], 8) = Some(parsed.data)
           /\ htou(g[n + 3], 8) = Some(parsed.leadout)
        \/ /\ parsed.kind = "DataFirst"
           /\ C7_Marked(g[n + 3])
           /\ htou(g[n + 2], 8) = Some(parsed.leadout)
           /\ htou(C7_Digits(g[n + 3]), 8) = Some(parsed.data)

C7_DisplayIsCanonicalWhenOrdered ==
    (C7_Case /\ C7_InDisplayOrder(call2.text, toc))
    => text = Some(C7_Canon(call2.text))

C7_Witness ==
    /\ C7_Case /\ C7_InDisplayOrder(call2.text, toc)
    /\ toc.kind = "DataFirst"
    /\ text # Some(call2.text)
    /\ text = Some(C7_Canon(call2.text))

\* C8: the leadin shift is invertible: for an Audio or CDExtra Toc with
\* leadin L0, if set_audio_leadin(L1) succeeds then set_audio_leadin(L0)
\* succeeds too and the Toc is again the original one.
C8_LeadinShiftInvertible ==
    (/\ call2.op = "set_audio_leadin" /\ ret2 = Ok
     /\ pre2.kind \in {"Audio", "CDExtra"}
     /\ call.op = "set_audio_leadin" /\ call.leadin = audio_leadin(pre2))
    => (ret = Ok /\ toc = pre2)

\* C9: kind reclassification round-trips: from an Audio Toc with at least
\* two audio tracks, set_kind(CDExtra) then set_kind(Audio), and
\* set_kind(DataFirst) then set_kind(Audio), reproduce the original Toc; from
\* a CDExtra Toc, set_kind(DataFirst) then set_kind(CDExtra) reproduces it.
C9_Case ==
    /\ call2.op = "set_kind" /\ call.op = "set_kind"
    /\ \/ /\ pre2.kind = "Audio" /\ Len(pre2.audio) >= 2
          /\ call2.kind \in {"CDExtra", "DataFirst"} /\ call.kind = "Audio"
       \/ /\ pre2.kind = "CDExtra"
          /\ call2.kind = "DataFirst" /\ call.kind = "CDExtra"

C9_KindRoundTrip ==
    C9_Case => (ret2 = Ok /\ ret = Ok /\ pre.kind = call2.kind /\ toc = pre2)

C9_Witness ==
    /\ C9_Case /\ pre2.kind = "CDExtra" /\ Len(pre2.audio) = 1
    /\ pre.kind = "DataFirst" /\ toc = pre2

\* C10 as stated: for a text whose track count decodes to n >= 1 and whose
\* other groups are all plain hex, from_cdtoc returns SectorCount(n, found)
\* with found # n whenever the number of sector groups is below n + 1 or
\* above n + 2, zero groups included; a declared count of 0 is an error too;
\* nothing panics.
C10_Groups == split(trim_ascii(call.text))

C10_PlainHex(g) ==
    Len(g) >= 1 /\ Len(g) <= 8 /\ \A i \in DOMAIN g : IsHex(g[i])

C10_Case(lowest) ==
    LET g == C10_Groups
        n == htou(g[1], 2)
        m == Len(g) - 1
    IN  /\ call.op = "from_cdtoc"
        /\ n # None /\ n[1] >= 1
        /\ \A i \in 2..Len(g) : C10_PlainHex(g[i])
        /\ m >= lowest
        /\ (m < n[1] + 1 \/ m > n[1] + 2)

C10_IsSectorCount ==
    /\ ret.tag = "SectorCount"
    /\ ret.n = htou(C10_Groups[1], 2)[1]
    /\ ret.found # ret.n

C10_ZeroCountFails ==
    (call.op = "from_cdtoc" /\ htou(C10_Groups[1], 2) = Some(0)) => ret # Ok

C10_SectorCountError ==
    /\ C10_Case(0) => C10_IsSectorCount
    /\ C10_ZeroCountFails
    /\ ret.tag # "Panic"

\* C10 as amended: for such a text from_cdtoc returns SectorCount(n, found)
\* with found # n whenever the number of sector groups is at least 1 and
\* below n + 1, or above n + 2; with no sector group at all it returns
\* NoAudio, as it does for a declared count of 0; nothing panics.
C10_SectorCountErrorUnlessNoGroups ==
    /\ C10_Case(1) => C10_IsSectorCount
    /\ (C10_Case(0) /\ Len(C10_Groups) = 1) => ret = Err("NoAudio")
    /\ (call.op = "from_cdtoc" /\ htou(C10_Groups[1], 2) = Some(0))
           => ret = Err("NoAudio")
    /\ ret.tag # "Panic"

C10_Witness ==
    /\ C10_Case(1) /\ ret.tag = "SectorCount" /\ ret.found > ret.n

\* C11: when from_cdtoc succeeds on a text whose final group carries the
\* x/X prefix, the Toc is DataFirst and its data sector is the prefixed
\* value: a prefixed group is never taken as the leadout, nor as the data
\* sector of a CDExtra disc.
C11_Final == LET g == split(trim_ascii(call.text)) IN g[Len(g)]

C11_MarkedIsDataFirst ==
    (call.op = "from_cdtoc" /\ ret = Ok /\ C7_Marked(C11_Final))
    => (toc.kind = "DataFirst" /\ htou(Tail(C11_Final), 8) = Some(toc.data))

\* C12: for every validated Toc with n audio tracks, AccurateRip::from is
\* the 13 bytes [n, b, c, cddb] (each of the three little-endian) with
\* off(s) = max(s - 150, 0), b the sum of off over the audio sectors and the
\* leadout, c the sum of max(off(s_i), 1) * i over the audio sectors plus
\* max(off(leadout), 1) * (n + 1), and cddb the value of cddb_id(); its
\* string is n as 3 decimal digits, then b, c and cddb as 8 lowercase hex
\* digits each, joined by dashes.
C12_Off(v) == max(v - 150, 0)

RECURSIVE C12_B(_, _, _)
C12_B(a, lo, hi) ==
    IF lo > hi THEN Word(0, FALSE)
    ELSE IF lo = hi THEN Word(C12_Off(a[lo]), FALSE)
    ELSE add(C12_B(a, lo, (lo + hi) \div 2), C12_B(a, ((lo + hi) \div 2) + 1, hi))

RECURSIVE C12_C(_, _, _)
C12_C(a, lo, hi) ==
    IF lo > hi THEN Word(0, FALSE)
    ELSE IF lo = hi THEN mul(max(C12_Off(a[lo]), 1), lo)
    ELSE add(C12_C(a, lo, (lo + hi) \div 2), C12_C(a, ((lo + hi) \div 2) + 1, hi))

\* the sectors the sums run over: the audio sectors, then the leadout
C12_Sectors(t) == Append(t.audio, t.leadout)

C12_Hex8(le) == hex_encode_bytes(Reverse(le))

C12_AccurateRipAsClaimed ==
    /\ call.op = "accuraterip_id" =>
          LET n == Len(toc.audio)
              b == C12_B(C12_Sectors(toc), 1, n + 1)
              c == C12_C(C12_Sectors(toc), 1, n + 1)
          IN  /\ ret = Ok
              /\ ~b.o /\ ~c.o
              /\ id = Id("AccurateRip",
                         <<n>> \o to_le_bytes(b.v) \o to_le_bytes(c.v)
                         \o Reverse(Cddb_from(toc, TRUE).id.bytes))
    /\ (call.op = "id_to_string" /\ call2.op = "accuraterip_id") =>
          text = Some(as_bytes3(id.bytes[1])
                      \o <<"-">> \o C12_Hex8(SubSeq(id.bytes, 2, 5))
                      \o <<"-">> \o C12_Hex8(SubSeq(id.bytes, 6, 9))
                      \o <<"-">> \o C12_Hex8(SubSeq(id.bytes, 10, 13)))

\* C13: deriving the AccurateRip ID of a validated Toc never overflows the
\* 32-bit sums b and c: nothing wraps silently and nothing faults.
C13_NoOverflow ==
    call.op = "accuraterip_id" =>
        /\ ret.tag # "Panic"
        /\ ~ar_sums(toc).b.o
        /\ ~ar_sums(toc).c.o

\* C14: for every validated Toc, Cddb::from is the bytes [a, b_hi, b_lo, c]
\* with a the sum of the decimal digits of (s div 75) over the audio sectors
\* and the data sector if present, mod 255, b exactly
\* (leadout div 75) - (leadin div 75), leadin being the data sector for
\* DataFirst and the first audio sector otherwise, and c the audio track
\* count plus one if there is a data track; it is shown as 8 lowercase hex
\* digits.
RECURSIVE C14_Digits(_)
C14_Digits(n) == IF n = 0 THEN 0 ELSE (n % 10) + C14_Digits(n \div 10)

RECURSIVE C14_A(_, _, _)
C14_A(s, lo, hi) ==
    IF lo > hi THEN 0
    ELSE IF lo = hi THEN C14_Digits(s[lo] \div 75)
    ELSE C14_A(s, lo, (lo + hi) \div 2) + C14_A(s, ((lo + hi) \div 2) + 1, hi)

C14_CddbAsClaimed ==
    /\ call.op = "cddb_id" =>
          LET s == IF has_data(toc.kind) THEN Append(toc.audio, toc.data) ELSE toc.audio
              a == C14_A(s, 1, Len(s)) % 255
              b == (toc.leadout \div 75)
                   - ((IF toc.kind = "DataFirst" THEN toc.data ELSE toc.audio[1]) \div 75)
              c == Len(s)
          IN  /\ ret = Ok
              /\ b \div 256 < 256
              /\ id = Id("Cddb", <<a, b \div 256, b % 256, c>>)
    /\ (call.op = "id_to_string" /\ call2.op = "cddb_id") =>
          /\ text = Some(hex_encode_bytes(id.bytes))
          /\ Len(text[1]) = 8

\* C15: the AccurateRip string round-trips: for every AccurateRip id (any
\* 13 bytes, those derived from a validated Toc among them) the string is
\* exactly 30 characters with dashes at positions 3, 12 and 21 (from 0), and
\* AccurateRip::decode of it returns Ok(id).
C15_Shown == call.op = "id_to_string" /\ id.type = "AccurateRip"

C15_Decoded ==
    /\ call.op = "AccurateRip::decode" /\ call2.op = "id_to_string"
    /\ preid.type = "AccurateRip"

C15_AccurateRipRoundTrip ==
    /\ C15_Shown =>
          /\ Len(text[1]) = 30
          /\ \A i \in 1..30 : (text[1][i] = "-") <=> (i \in {4, 13, 22})
    /\ C15_Decoded => (ret = Ok /\ id = preid)

C15_Witness ==
    /\ C15_Decoded /\ IsToc /\ Len(toc.audio) = MaxTracks
    /\ ret = Ok /\ id = preid

\* C16: the ShaB64 string round-trips: for every 20-byte digest the string
\* is exactly 28 characters, the first 27 from A-Z, a-z, 0-9, '.', '_' and
\* the 28th '-', and ShaB64::decode of it returns Ok of the same 20 bytes.
C16_Shown == call.op = "id_to_string" /\ id.type = "ShaB64"

C16_Decoded ==
    /\ call.op = "ShaB64::decode" /\ call2.op = "id_to_string"
    /\ preid.type = "ShaB64"

C16_ShaB64RoundTrip ==
    /\ C16_Shown =>
          /\ Len(text[1]) = 28
          /\ \A i \in 1..27 : \E j \in 1..64 : text[1][i] = Base64[j]
          /\ text[1][28] = "-"
    /\ C16_Decoded => (ret = Ok /\ Len(id.bytes) = 20 /\ id = preid)

C16_Witness ==
    /\ C16_Decoded /\ ret = Ok /\ id = preid
    /\ id.bytes = [i \in 1..20 |-> 255]
    /\ call.text[27] = "8"

\* C17: Cddb::decode is strict: it returns Ok only for a text of exactly 8
\* hex digits, and Err(CddbDecode) for every other text, valid hex of 1 to
\* 7 digits included.
C17_DecodeIsStrict ==
    call.op = "Cddb::decode" =>
        IF Len(call.text) = 8 /\ \A i \in 1..8 : IsHex(call.text[i])
        THEN ret = Ok
        ELSE ret = Err("CddbDecode")

\* C18: ctdb_parse_checksums returns Err(Checksums), and never faults,
\* whenever an `<entry ` line's trackcrcs holds a number of checksums other
\* than the disc's audio track count, fewer or more, whatever the surplus
\* checksums are.
C18_Counts ==
    LET all == lines(call.text) IN
    {Len(split_ascii_whitespace(parse_entry(trim_ascii(all[i]))[1][2])) :
        i \in {j \in DOMAIN all : parse_entry(trim_ascii(all[j])) # None}}

C18_MismatchIsChecksumsError ==
    (call.op = "ctdb_parse_checksums" /\ C18_Counts \ {Len(toc.audio)} # {})
    => ret = Err("Checksums")

\* C19: for an AccurateRip id of n tracks and a file of whole records of
\* 13 + 9n bytes, parse_checksums returns Err(Checksums) if a record does not
\* start with the id's bytes; otherwise entry k of the result maps each
\* non-zero checksum seen for track k + 1 to min(255, the sum of its
\* confidence bytes over all records), in whatever order the records come,
\* zero checksums skipped; it returns Err(NoChecksums) if no record holds a
\* non-zero checksum.
C19_Size == 13 + 9 * id.bytes[1]

C19_Records == [r \in 1..(Len(bin) \div C19_Size) |->
                   SubSeq(bin, (r - 1) * C19_Size + 1, r * C19_Size)]

\* track k (from 1) of record r: <<confidence, checksum, most significant first>>
C19_Entry(r, k) ==
    LET at == 13 + 9 * (k - 1) IN
    <<C19_Records[r][at + 1],
      <<C19_Records[r][at + 5], C19_Records[r][at + 4],
        C19_Records[r][at + 3], C19_Records[r][at + 2]>> >>

C19_Seen(k) ==
    {C19_Entry(r, k)[2] : r \in DOMAIN C19_Records} \ {<<0, 0, 0, 0>>}

RECURSIVE C19_Sum(_, _, _)
C19_Sum(k, crc, r) ==
    IF r = 0 THEN 0
    ELSE C19_Sum(k, crc, r - 1)
         + (IF C19_Entry(r, k)[2] = crc THEN C19_Entry(r, k)[1] ELSE 0)

C19_Case == call.op = "parse_checksums" /\ Len(bin) % C19_Size = 0

C19_ParseChecksums ==
    C19_Case =>
        IF \E r \in DOMAIN C19_Records : SubSeq(C19_Records[r], 1, 13) # id.bytes
        THEN ret = Err("Checksums")
        ELSE IF \A k \in 1..id.bytes[1] : C19_Seen(k) = {}
        THEN ret = Err("NoChecksums")
        ELSE /\ ret = Ok
             /\ Len(sums) = id.bytes[1]
             /\ \A k \in 1..id.bytes[1] :
                   /\ DOMAIN sums[k] = C19_Seen(k)
                   /\ \A crc \in C19_Seen(k) :
                         sums[k][crc] = IF C19_Sum(k, crc, Len(C19_Records)) > 255 THEN 255
                                        ELSE C19_Sum(k, crc, Len(C19_Records))

C19_Witness ==
    /\ C19_Case /\ ret = Ok /\ Len(C19_Records) = MaxRecords
    /\ id.bytes[1] = 2
    /\ sums[1] = [crc \in {<<0, 0, 0, 1>>} |-> 255]
    /\ C19_Entry(1, 1)[1] < C19_Entry(MaxRecords, 1)[1]

\* C20: for every validated Toc, a DataFirst disc with its data sector
\* below 150 included, ctdb_checksum_url completes without an arithmetic
\* underflow and its toc= parameter is, joined by colons: '-' and data - 150
\* (DataFirst only), each audio sector minus 150, '-' and data - 150 (CDExtra
\* only), and leadout - 150.
RECURSIVE C20_Decimal(_)
C20_Decimal(n) ==
    IF n < 10 THEN <<Decimal[n + 1]>>
    ELSE Append(C20_Decimal(n \div 10), Decimal[(n % 10) + 1])

C20_Parts(t) ==
    (IF t.kind = "DataFirst" THEN << <<"-">> \o C20_Decimal(t.data - 150) >> ELSE <<>>)
    \o [i \in DOMAIN t.audio |-> C20_Decimal(t.audio[i] - 150)]
    \o (IF t.kind = "CDExtra" THEN << <<"-">> \o C20_Decimal(t.data - 150) >> ELSE <<>>)
    \o << C20_Decimal(t.leadout - 150) >>

RECURSIVE C20_Join(_, _, _)
C20_Join(parts, lo, hi) ==
    IF lo = hi THEN parts[lo]
    ELSE C20_Join(parts, lo, (lo + hi) \div 2) \o <<":">>
         \o C20_Join(parts, ((lo + hi) \div 2) + 1, hi)

C20_UrlWithoutUnderflow ==
    call.op = "ctdb_checksum_url" =>
        /\ ret = Ok
        /\ ~(has_data(toc.kind) /\ toc.data < 150)
        /\ text = Some(CTDB_URL \o C20_Join(C20_Parts(toc), 1, Len(C20_Parts(toc))))

\* The Track asked for by the last audio_track call, and the Toc's count.
C21_Len == Len(toc.audio)

C21_Claimed(k) ==
    Track(k, TrackPosition(k, C21_Len), toc.audio[k],
          IF k < C21_Len THEN toc.audio[k + 1]
          ELSE IF toc.kind = "CDExtra" THEN toc.data - 11400
          ELSE toc.leadout)

\* C21: audio_track(k) on a validated Toc of n audio tracks is None for k = 0
\* and k > n; for k in 1..n it is the Track numbered k from the k-th audio
\* sector to the next one, or for k = n to the audio leadout (leadout, or the
\* data sector minus 11400 for CDExtra), with from < to, and its sectors()
\* is to - from, computed without underflow.
C21_AudioTrackRanges ==
    /\ call.op = "audio_track" =>
         IF args.num = 0 \/ args.num > C21_Len THEN got.track = None
         ELSE /\ got.track = Some(C21_Claimed(args.num))
              /\ got.track[1].from < got.track[1].to
    /\ call.op = "Track::duration" =>
         /\ ret = Ok
         /\ got.duration = got.track[1].to - got.track[1].from

\* C22: duration() is computed without underflow and equals the sum of the
\* durations of the tracks audio_tracks() yields, which are exactly
\* audio_track(1) .. audio_track(audio_len()) in order.
C22_DurationIsSumOfTracks ==
    /\ call.op = "duration" => ret = Ok
    /\ call.op = "audio_tracks" =>
         /\ ret = Ok
         /\ got.tracks = [i \in 1..Len(toc.audio) |-> audio_track(toc, i)[1]]
         /\ got.sum = got.duration

C23_First == IF args.leadin = None THEN 150 ELSE args.leadin[1]

C23_Fits ==
    \A i \in DOMAIN args.src :
        args.src[i] <= U32Max /\ C23_First + sum_range(args.src, 1, i) <= U32Max

\* C23: from_durations(d1..dn, leadin) with L >= 150 (150 for None),
\* 1 <= n <= 99, every di >= 1 and L + sum(di) within the word returns the
\* Audio Toc whose i-th sector is L + d1 + .. + d(i-1) and whose leadout is
\* L + d1 + .. + dn, and audio_track(i).duration() is di; an empty sequence,
\* more than 99 durations, L < 150 and a zero duration are errors, and a
\* duration or running sum that does not fit the word is SectorSize.
C23_FromDurations ==
    /\ call.op = "from_durations" =>
         LET src == args.src
             n   == Len(src)
         IN  /\ ~C23_Fits => ret = Err("SectorSize")
             /\ (n = 0 \/ n > MaxTracks \/ C23_First < MinLeadin
                 \/ \E i \in DOMAIN src : src[i] = 0) => ret # Ok
             /\ (/\ C23_Fits /\ 1 <= n /\ n <= MaxTracks /\ C23_First >= MinLeadin
                 /\ \A i \in DOMAIN src : src[i] >= 1)
                => /\ ret = Ok
                   /\ toc = [kind |-> "Audio",
                             audio |-> [i \in 1..n |-> C23_First + sum_range(src, 1, i - 1)],
                             data |-> 0,
                             leadout |-> C23_First + sum_range(src, 1, n)]
    /\ (call.op = "Track::duration" /\ args.src # <<>>) =>
         ret = Ok /\ got.duration = args.src[args.num]

C23_Witness ==
    /\ call.op = "Track::duration" /\ ret = Ok
    /\ Len(args.src) = 3 /\ args.num = 3 /\ args.leadin = Some(200)
    /\ got.duration = 50

\* The whole blocks of the list handed to parse_drive_offsets, and what the
\* claim reads in a block: its offset, its text, its vendor and model.
C24_Blocks == chunks_exact(bin, BLOCK_SIZE)
C24_Offset(b) == i16_from_le_bytes(b[1], b[2])
C24_Ascii(b) == \A i \in 3..34 : b[i] < 128
C24_Fields(b) == vendor_model(SubSeq(b, 3, 34))
C24_InRange(b) == -2940 <= C24_Offset(b) /\ C24_Offset(b) <= 2940
C24_Fit(b) ==
    C24_InRange(b) /\ Len(C24_Fields(b).vendor) <= 8 /\ Len(C24_Fields(b).model) <= 16
C24_Entry(b) ==
    [vendor |-> C24_Fields(b).vendor, model |-> C24_Fields(b).model,
     offset |-> C24_Offset(b)]

\* C24 as stated: a block with an empty model is skipped whatever else it
\* holds; a block with a non-empty model that is out of range, too long or not
\* ASCII makes the call fail with DriveOffsetDecode; otherwise the result
\* holds (vendor, model) -> offset for every block not skipped, and a list
\* shorter than one block or without entries is NoDriveOffsets.
C24_DriveOffsetsAsStated ==
    call.op = "parse_drive_offsets" =>
      LET blocks  == C24_Blocks
          skipped == {k \in DOMAIN blocks : C24_Fields(blocks[k]).model = <<>>}
          kept    == DOMAIN blocks \ skipped
          bad     == {k \in kept : ~C24_Fit(blocks[k]) \/ ~C24_Ascii(blocks[k])}
      IN  IF Len(bin) < BLOCK_SIZE THEN ret = Err("NoDriveOffsets")
          ELSE IF bad # {} THEN ret = Err("DriveOffsetDecode")
          ELSE IF kept = {} THEN ret = Err("NoDriveOffsets")
          ELSE ret = Ok /\ got.offsets = {C24_Entry(blocks[k]) : k \in kept}

\* C24, amended: a block whose text is not ASCII makes the call fail with
\* DriveOffsetDecode whatever its model; an ASCII block with an empty model
\* is skipped whatever its offset and vendor; an ASCII block with a non-empty
\* model that is out of range or too long makes the call fail with
\* DriveOffsetDecode; otherwise the result maps each (vendor, model) to the
\* offset of the last block naming it, and a list shorter than one block or
\* without entries is NoDriveOffsets.
C24_DriveOffsets ==
    call.op = "parse_drive_offsets" =>
      LET blocks  == C24_Blocks
          skipped == {k \in DOMAIN blocks :
                        C24_Ascii(blocks[k]) /\ C24_Fields(blocks[k]).model = <<>>}
          kept    == DOMAIN blocks \ skipped
          bad     == {k \in kept : ~C24_Ascii(blocks[k]) \/ ~C24_Fit(blocks[k])}
          last    == {k \in kept : \A j \in kept :
                        (/\ C24_Fields(blocks[j]).vendor = C24_Fields(blocks[k]).vendor
                         /\ C24_Fields(blocks[j]).model = C24_Fields(blocks[k]).model)
                        => j <= k}
      IN  IF Len(bin) < BLOCK_SIZE THEN ret = Err("NoDriveOffsets")
          ELSE IF bad # {} THEN ret = Err("DriveOffsetDecode")
          ELSE IF kept = {} THEN ret = Err("NoDriveOffsets")
          ELSE ret = Ok /\ got.offsets = {C24_Entry(blocks[k]) : k \in last}

C24_Witness ==
    /\ call.op = "parse_drive_offsets" /\ ret = Ok
    /\ Len(bin) = 2 * BLOCK_SIZE
    /\ C24_Fields(C24_Blocks[1]).model = <<>>
    /\ got.offsets = {[vendor |-> PIONEER, model |-> BDR_X13U, offset |-> 667]}

\* C25: when set_audio_leadin(L) returns Ok on an Audio or CDExtra Toc, the
\* first audio sector is L, every audio sector, the data sector (CDExtra) and
\* the leadout have moved by the same signed delta L - (old first audio
\* sector), the kind and the track count are unchanged, and with L equal to
\* the current leadin nothing changes.
C25_UniformShift ==
    (/\ call.op = "set_audio_leadin" /\ ret = Ok
     /\ pre.kind \in {"Audio", "CDExtra"})
    => LET delta == call.leadin - audio_leadin(pre) IN
       /\ audio_leadin(toc) = call.leadin
       /\ toc.kind = pre.kind
       /\ Len(toc.audio) = Len(pre.audio)
       /\ \A i \in DOMAIN pre.audio : toc.audio[i] = pre.audio[i] + delta
       /\ has_data(pre.kind) => toc.data = pre.data + delta
       /\ toc.leadout = pre.leadout + delta
       /\ delta = 0 => toc = pre

\* The list without its i-th element.
C26_Without(s, i) == SubSeq(s, 1, i - 1) \o SubSeq(s, i + 1, Len(s))

\* One value of the audio list a has become the data field d, the rest is b.
C26_Taken(a, d, b) == \E i \in DOMAIN a : a[i] = d /\ C26_Without(a, i) = b

C26_Moved ==
    IF pre.kind = "Audio" THEN C26_Taken(pre.audio, toc.data, toc.audio)
    ELSE IF toc.kind = "Audio" THEN C26_Taken(toc.audio, pre.data, pre.audio)
    ELSE \E i \in DOMAIN toc.audio, j \in DOMAIN pre.audio :
           /\ toc.audio[i] = pre.data /\ toc.data = pre.audio[j]
           /\ C26_Without(toc.audio, i) = C26_Without(pre.audio, j)

\* C26: set_kind(k) returns Err(NoAudio) exactly when the Toc is Audio with
\* one track and k is CDExtra or DataFirst; with k the current kind it returns
\* Ok and changes nothing; otherwise it returns Ok, the kind is k, one sector
\* value has moved between the audio list and the data field (one each way
\* between CDExtra and DataFirst) and data_sector() is None iff k is Audio.
C26_SetKindOutcome ==
    call.op = "set_kind" =>
      /\ ret = Err("NoAudio") <=>
           (/\ pre.kind = "Audio" /\ call.kind \in {"CDExtra", "DataFirst"}
            /\ Len(pre.audio) = 1)
      /\ ret # Err("NoAudio") => ret = Ok
      /\ call.kind = pre.kind => ret = Ok /\ toc = pre
      /\ (ret = Ok /\ call.kind # pre.kind) =>
           /\ toc.kind = call.kind
           /\ C26_Moved
           /\ data_sector(toc) = None <=> call.kind = "Audio"

C26_Witness ==
    /\ call.op = "set_kind" /\ ret = Ok
    /\ pre.kind = "CDExtra" /\ call.kind = "DataFirst" /\ Len(pre.audio) = 2
    /\ toc.data = pre.audio[1] /\ toc.audio[2] = pre.data

\* All the sector positions of a Toc: its audio sectors and its data sector.
C30_Sectors(t) == t.audio \o (IF has_data(t.kind) THEN <<t.data>> ELSE <<>>)

C30_Count(s, v) == Cardinality({i \in DOMAIN s : s[i] = v})

\* Two lists that sort to the same sequence.
C30_SameSorted(a, b) ==
    /\ Len(a) = Len(b)
    /\ \A i \in DOMAIN a : C30_Count(a, a[i]) = C30_Count(b, a[i])

\* C30: set_kind changes neither the leadout nor the sorted sequence of all
\* sector positions, and the Toc after two successful set_kind calls in a row
\* is the Toc a single set_kind with the last kind makes of the starting Toc
\* (so, step by step, after any number of them).
C30_SetKindPathIndependent ==
    /\ call.op = "set_kind" =>
         /\ toc.leadout = pre.leadout
         /\ C30_SameSorted(C30_Sectors(toc), C30_Sectors(pre))
    /\ (/\ call.op = "set_kind" /\ ret = Ok
        /\ call2.op = "set_kind" /\ ret2 = Ok)
       => set_kind(pre2, call.kind) = [ret |-> Ok, toc |-> toc]

C30_Witness ==
    /\ call.op = "set_kind" /\ ret = Ok /\ call2.op = "set_kind" /\ ret2 = Ok
    /\ pre2.kind = "Audio" /\ Len(pre2.audio) = 3
    /\ pre.kind = "DataFirst" /\ toc.kind = "CDExtra"
    /\ toc.audio = Front(pre2.audio)

\* The strings that differ from s at most in the `bits` low bits of the 27th
\* character's six-bit value.
C29_Variants(s, bits) ==
    LET v    == base64_decode(s[27])[1]
        span == IF bits = 3 THEN 8 ELSE 4
    IN  {[s EXCEPT ![27] = Base64[(v \div span) * span + x + 1]] : x \in 0..(span - 1)}

C29_Unused(bits) ==
    /\ (call.op = "ShaB64::decode" /\ ret = Ok) =>
         \A s \in C29_Variants(call.text, bits) :
            ShaB64_decode(s) = [ret |-> Ok, id |-> id]
    /\ (call.op = "id_to_string" /\ id.type = "ShaB64") =>
         base64_decode(text[1][27])[1] % (IF bits = 3 THEN 8 ELSE 4) = 0

\* C29 as stated: the 3 low bits of the 27th six-bit group are unused:
\* strings differing only in them decode to the same 20 bytes, and the display
\* string always has them zero.
C29_ThreeBitsUnused == C29_Unused(3)

\* C29, amended: the 2 low bits of the 27th six-bit group are unused (27
\* groups hold 162 bits, the digest 160): strings differing only in them
\* decode to the same 20 bytes, and the display string always has them zero.
C29_TwoBitsUnused == C29_Unused(2)

C29_Witness ==
    /\ call.op = "ShaB64::decode" /\ ret = Ok
    /\ call.text[27] = "F"
    /\ ShaB64_to_string(id.bytes)[27] = "E"

\* Eight uppercase hex digits of a word.
C27_Hex8(v) == make_ascii_uppercase(hex_encode(v, 8))

\* The group ctdb_id hashed right after the audio-sector groups.
C27_Hashed ==
    SubSeq(got.fed, 8 * (Len(toc.audio) - 1) + 1, 8 * Len(toc.audio))

\* C27: for a validated Toc of any kind, the value ctdb_id hashes right after
\* the audio-sector values is the Toc's leadout minus its first audio sector,
\* and the subtraction does not underflow.
C27_LeadoutTerm ==
    call.op = "ctdb_id" =>
      /\ ret = Ok
      /\ C27_Hashed = C27_Hex8(toc.leadout - toc.audio[1])

\* The unbatched reference: one eight-character group at a time, the audio
\* sectors after the first less the first, then the leadout term, then
\* "00000000" up to a hundred groups.
C28_Reference(t, term) ==
    LET n == Len(t.audio)
        group(g) == IF g < n THEN C27_Hex8(t.audio[g + 1] - t.audio[1])
                    ELSE IF g = n THEN C27_Hex8(term)
                    ELSE [i \in 1..8 |-> "0"]
    IN  [i \in 1..800 |-> group(((i - 1) \div 8) + 1)[((i - 1) % 8) + 1]]

\* C28: for every track count, what ctdb_id feeds to SHA-1 is the unbatched
\* reference, a hundred groups (800 characters) in all, with nothing left
\* over from an earlier batch; a call that panics at the leadout term has fed
\* only the first groups of it.
C28_BatchingIsTransparent ==
    call.op = "ctdb_id" =>
      LET reference == C28_Reference(toc, sub(audio_leadout(toc), toc.audio[1]).v) IN
      IF ret = Ok THEN got.fed = reference /\ Len(got.fed) = 800
      ELSE got.fed = SubSeq(reference, 1, Len(got.fed))

C28_Witness ==
    /\ call.op = "ctdb_id" /\ ret = Ok
    /\ Len(toc.audio) = 7 /\ toc.kind = "Audio"
    /\ SubSeq(got.fed, 41, 56) = C27_Hex8(6) \o C27_Hex8(toc.leadout - 150)
    /\ got.fed[57] = "0"

====
